---- MODULE Spec2Model ----
(***************************************************************************)
(* Model of the Stats-of-the-week ingestion pipeline (src/ingest.py), its  *)
(* upstream client riot_get, the cursor reset script (src/reset_ingest.py) *)
(* and the records engine of src/weekly_report.py.                         *)
(*                                                                         *)
(* Three specifications share the module:                                  *)
(*   Spec        - ingestion runs over the store and a growing upstream    *)
(*   SpecRiot    - one riot_get call after another, attempt by attempt     *)
(*   SpecRecords - update_record_max / update_record_min calls             *)
(*   SpecBatch   - ingestion runs from an empty store, three matches       *)
(*   SpecKda     - kda_ratio calls                                         *)
(*   SpecReport  - weekly_report.py main() runs over a filled store        *)
(*   SpecOverlap - an ingestion run and a reporting run interleaved        *)
(*   SpecStorage - SpecBatch with writes that can raise sqlite3.Error      *)
(*   SpecSupport - is_support_this_week calls                              *)
(*   SpecTerm    - one ingest() call with its riot_get calls (SpecTermFair:*)
(*                 every request is answered)                              *)
(*   SpecAwards  - the weekly award selections, each evaluated twice       *)
(*   SpecQueues  - the two queue sets of a configuration                   *)
(*   SpecBackfill - ingestion runs and backlog_deadtime.py passes over an   *)
(*                  upstream that revises its payloads                      *)
(***************************************************************************)
EXTENDS Integers, Sequences, FiniteSets, Bags, TLC

VARIABLES
    \* ---- configuration and environment of ingestion
    cfg,          \* the loaded config.yaml
    clock,        \* wall clock, seconds (time.time(), unixepoch())
    upstream,     \* match_id -> payload the match API serves for it
    \* ---- the store (committed content of stats.db)
    players,      \* players table: puuid -> row
    matches,      \* matches table: a bag of rows
    stats,        \* player_match_stats table: a bag of rows
    ingest_state, \* ingest_state table: puuid -> last_end_time_ts
    tx_matches,   \* matches rows written by the open transaction
    \* ---- one ingest() call (src/ingest.py:250-343)
    pc,           \* "idle" | "player" | "list" | "match" | "tx" | "cp2" | "returned"
    loc,          \* the locals of ingest()
    ret,          \* what the last completed ingest() returned
    \* ---- history of the run, kept for the properties
    hist,
    \* ---- riot_get (src/ingest.py:30-65)
    rg_pc,        \* "idle" | "loop" | "done"
    rg_attempt,   \* the for-loop variable `attempt`
    rg_last,      \* the local `last`
    rg_resps,     \* what the upstream answered to each request so far
    rg_sleeps,    \* the argument of each time.sleep call so far
    rg_result,    \* how the call ended
    \* ---- records table (src/weekly_report.py:323-379)
    records,      \* key -> row of the records table
    rec_ret,      \* return value of the last update_record_* call
    rec_hist,     \* per key, the calls made on it so far
    rec_clock,    \* unixepoch() as seen by the reporting process
    \* ---- the reporting process (src/weekly_report.py)
    rp,           \* one main() call: its position, locals and what it has posted
    kda_call,     \* arguments and result of the last kda_ratio call
    \* ---- the backfill pass (src/backlog_deadtime.py)
    bf,           \* its position, the rows it selected, its open transaction
    \* ---- helper functions of src/weekly_report.py called on their own
    fn_call,      \* name, arguments and result of the last call
    \* ---- an ingestion run together with its riot_get calls
    requests      \* the riot_get calls and requests of the entity at hand

riotVars == <<rg_pc, rg_attempt, rg_last, rg_resps, rg_sleeps, rg_result>>
recVars == <<records, rec_ret, rec_hist, rec_clock>>
envVars == <<cfg, clock, upstream>>
dbVars == <<players, matches, stats, ingest_state, tx_matches>>
runVars == <<pc, loc, ret, hist>>
ingestVars == <<envVars, dbVars, runVars>>
reportVars == <<rp, kda_call>>
bfVars == <<bf>>
fnVars == <<fn_call, requests>>
vars == <<ingestVars, riotVars, recVars, reportVars, bfVars, fnVars>>

----------------------------------------------------------------------------
(* configuration, clock and upstream                                       *)

None == [present |-> FALSE, v |-> 0]
Some(x) == [present |-> TRUE, v |-> x]

Puuids == {"u1", "u2"}
MatchIds == {1, 2}

DaySecs == 24 * 60 * 60

\* the clock advances one day at a time, MaxClock times at most
MaxClock == 1

\* riot.regions of config.yaml
Regions == [pf \in {"euw1", "na1"} |-> IF pf = "euw1" THEN "europe" ELSE "americas"]

\* a riot id is its sequence of characters
RiotIdA == <<"a", "#", "1">>
RiotIdB == <<"b", "#", "2">>
RiotIdNoTag == <<"c">>

Player(riot_id, has_platform, platform, override) ==
    [riot_id |-> riot_id, has_platform |-> has_platform, platform |-> platform,
     override |-> override]

\* the configurations the runs are checked under: an entity override, a
\* platform missing from riot.regions next to a per-player cap above the
\* ceiling of the match listing, and a riot id without a tag next to a
\* per-player cap below the number of matches
CfgChoices ==
    { [players |-> <<Player(RiotIdA, TRUE, "euw1", {}), Player(RiotIdB, TRUE, "na1", {450})>>,
       enabled_queues |-> {420}, lookback_days |-> 1, max_matches_per_player |-> 70],
      [players |-> <<Player(RiotIdA, TRUE, "kr", {}), Player(RiotIdB, TRUE, "euw1", {})>>,
       enabled_queues |-> {420, 450}, lookback_days |-> 1, max_matches_per_player |-> 250],
      [players |-> <<Player(RiotIdNoTag, TRUE, "euw1", {}), Player(RiotIdB, TRUE, "euw1", {})>>,
       enabled_queues |-> {420}, lookback_days |-> 2, max_matches_per_player |-> 1] }

\* routing_for_platform: the routing, or KeyError
routing_for_platform_raises(c, platform) == platform \notin DOMAIN Regions
routing_for_platform(c, platform) == Regions[platform]

\* parse_riot_id: ValueError unless the id holds a "#"
parse_riot_id_raises(riot_id) == ~(\E i \in 1..Len(riot_id) : riot_id[i] = "#")
parse_riot_id(riot_id) ==
    LET h == CHOOSE i \in 1..Len(riot_id) :
                 riot_id[i] = "#" /\ \A j \in 1..(i - 1) : riot_id[j] # "#"
    IN <<SubSeq(riot_id, 1, h - 1), SubSeq(riot_id, h + 1, Len(riot_id))>>

\* the account API: by-riot-id/{name}/{tag} -> puuid
AccountPuuid(name_tag) == IF name_tag[1] = <<"a">> THEN "u1" ELSE "u2"

\* the global set whatever the player overrides
enabled_queue_ids_global(c, p) == c.enabled_queues

\* an override that is added to the global set
enabled_queue_ids_union(c, p) == p.override \cup c.enabled_queues

\* enabled_queue_ids(cfg, player)
enabled_queue_ids(c, p) == IF p.override # {} THEN p.override ELSE c.enabled_queues

\* the counters of a participant record that the stat row is made from;
\* each of them may be absent from the record
ParticipantRec(k, d, a, tmk, nmk, dead) ==
    [kills |-> k, deaths |-> d, assists |-> a, totalMinionsKilled |-> tmk,
     neutralMinionsKilled |-> nmk, totalTimeSpentDead |-> dead]

RecFull == ParticipantRec(Some(3), Some(1), Some(2), Some(4), Some(1), Some(5))
RecEmpty == ParticipantRec(None, None, None, None, None, None)
RecPartial == ParticipantRec(Some(2), None, Some(1), Some(6), None, Some(7))

\* a payload names the counters of each of its participant records
RecOf(name) ==
    CASE name = "full" -> RecFull
      [] name = "partial" -> RecPartial
      [] OTHER -> RecEmpty

\* find_participant, for a puuid that the payload holds a record of
find_participant(json, puuid) == RecOf(json.rec[puuid])

\* a match payload as the match API serves it: info.queueId (may be absent),
\* info.gameStartTimestamp in ms (may be absent), and for each tracked puuid
\* whether the by-puuid listing shows the match ("unlisted" if not) and what
\* info.participants holds for it: a full record ("ok"), none ("nopart"), or
\* a record whose counters are null ("bad": int(None) raises TypeError);
\* rec names the counters of the participant records
NoMatch == [exists |-> FALSE, queueId |-> None, has_start |-> FALSE, start_ms |-> 0,
            part |-> [u \in Puuids |-> "unlisted"], rec |-> [u \in Puuids |-> "empty"]]

PartMap(s1, s2) == [u \in Puuids |-> IF u = "u1" THEN s1 ELSE s2]

PartMaps == {PartMap("ok", "ok"), PartMap("ok", "unlisted"), PartMap("nopart", "ok"),
             PartMap("bad", "ok")}

PayloadWith(q, has_start, start_s, pm, recs) ==
    [exists |-> TRUE, queueId |-> q, has_start |-> has_start, start_ms |-> start_s * 1000,
     part |-> pm, rec |-> recs]

Payload(q, has_start, start_s, pm) ==
    PayloadWith(q, has_start, start_s, pm, [u \in Puuids |-> "full"])

\* the payloads a match that started at start_s can have: every participant
\* shape in queue 420, and a match both players were in for the other queue,
\* for a missing queueId and for a missing gameStartTimestamp
Payloads(start_s) ==
    { Payload(Some(420), TRUE, start_s, pm) : pm \in PartMaps }
    \cup { Payload(q, TRUE, start_s, PartMap("ok", "ok")) : q \in {Some(450), None} }
    \cup { Payload(Some(420), FALSE, start_s, PartMap("ok", "ok")) }

\* outcome of one riot_get call as its caller sees it (ingest.py:30-65)
RiotOutcomes == {"return", "raise"}

\* int(game_start_ms / 1000)
StartSec(json) == json.start_ms \div 1000

RECURSIVE NewestFirst(_)
NewestFirst(S) ==
    IF S = {} THEN <<>>
    ELSE LET m == CHOOSE x \in S : \A y \in S :
                      \/ StartSec(upstream[x]) > StartSec(upstream[y])
                      \/ (StartSec(upstream[x]) = StartSec(upstream[y]) /\ x >= y)
         IN <<m>> \o NewestFirst(S \ {m})

Min(a, b) == IF a < b THEN a ELSE b

\* get_match_ids: the ids of the puuid's matches that started in
\* [startTime, endTime], newest first, `count` at most
get_match_ids(puuid, start_time, end_time, count) ==
    LET all == NewestFirst({ m \in DOMAIN upstream :
                   /\ upstream[m].exists
                   /\ upstream[m].part[puuid] # "unlisted"
                   /\ StartSec(upstream[m]) >= start_time
                   /\ StartSec(upstream[m]) <= end_time })
    IN SubSeq(all, 1, Min(count, Len(all)))

\* get_match
get_match(match_id) == upstream[match_id]

----------------------------------------------------------------------------
(* the store                                                               *)

\* primary key of matches (schema.sql): match_id
matches_pk(row) == row.match_id

\* primary key of player_match_stats (schema.sql): (puuid, match_id)
pms_pk(row) == <<row.puuid, row.match_id>>

NoPlayerRow == [present |-> FALSE, riot_id |-> <<>>, platform |-> "", routing |-> ""]

upsert_player(tbl, puuid, riot_id, platform, routing) ==
    [tbl EXCEPT ![puuid] =
        [present |-> TRUE, riot_id |-> riot_id, platform |-> platform, routing |-> routing]]

get_checkpoint(tbl, puuid) == tbl[puuid]

\* a checkpoint that stores the day before the end of the window
set_checkpoint_stale(tbl, puuid, end_ts) == [tbl EXCEPT ![puuid] = Some(end_ts - DaySecs)]

set_checkpoint(tbl, puuid, end_ts) == [tbl EXCEPT ![puuid] = Some(end_ts)]

\* what the connection sees of the matches table inside a transaction
MatchesView == matches (+) tx_matches

Rows(tbl) == BagToSet(tbl)

\* the number of rows of the matches table with the given key
MatchRowCount(tbl, key) ==
    BagCardinality([r \in {x \in Rows(tbl) : matches_pk(x) = key} |-> tbl[r]])

\* the number of rows of the player_match_stats table with the given key
StatRowCount(tbl, key) ==
    BagCardinality([r \in {x \in Rows(tbl) : pms_pk(x) = key} |-> tbl[r]])

\* an existence check that never finds the row
match_exists_never(tbl, match_id) == FALSE

match_exists(tbl, match_id) == \E r \in Rows(tbl) : r.match_id = match_id

\* a stat lookup that never finds the row
stat_exists_never(tbl, puuid, match_id) == FALSE

\* SELECT 1 FROM player_match_stats WHERE puuid=? AND match_id=?
stat_exists(tbl, puuid, match_id) ==
    \E r \in Rows(tbl) : r.puuid = puuid /\ r.match_id = match_id

\* the row of a match (ingested_at, which nothing reads, is left out)
MatchRow(match_id, routing, json) ==
    [match_id |-> match_id, routing |-> routing, queue_id |-> json.queueId,
     game_start_ts |-> IF json.has_start THEN Some(StartSec(json)) ELSE None]

\* a Match insert that writes nothing
insert_match_row_none(tbl, match_id, routing, json) == EmptyBag

\* insert_match_row: the rows INSERT OR IGNORE adds to the matches table
insert_match_row(tbl, match_id, routing, json) ==
    LET row == MatchRow(match_id, routing, json) IN
    IF \E r \in Rows(tbl) : matches_pk(r) = matches_pk(row) THEN EmptyBag ELSE SetToBag({row})

\* int(part.get(name, 0)) of a counter that is absent or an integer
CounterOr0(x) == IF x.present THEN x.v ELSE 0

\* a resource-collection count that leaves the neutral minions out
ResourceCount_lane(part) == CounterOr0(part.totalMinionsKilled)

\* line 200: cs
ResourceCount(part) ==
    CounterOr0(part.totalMinionsKilled) + CounterOr0(part.neutralMinionsKilled)

\* line 215-216: int(raw_dead_time) if raw_dead_time is not None else None
TimeDead(part) ==
    IF part.totalTimeSpentDead.present THEN Some(part.totalTimeSpentDead.v) ELSE None

\* the row of lines 187-246 (of its columns: the key, the counters, the
\* incapacitation duration, the denormalised start and category)
StatRow(puuid, match_id, json) ==
    LET part == find_participant(json, puuid) IN
    [puuid |-> puuid, match_id |-> match_id, queue_id |-> json.queueId,
     game_start_ts |-> StartSec(json),
     kills |-> CounterOr0(part.kills), deaths |-> CounterOr0(part.deaths),
     assists |-> CounterOr0(part.assists), cs |-> ResourceCount(part),
     time_dead_s |-> TimeDead(part)]

\* a stat insert that raises when the payload has no record of the puuid
insert_player_match_stats_strict(tbl, puuid, match_id, json) ==
    IF json.part[puuid] \in {"nopart", "unlisted", "bad"} \/ ~json.has_start
    THEN [raises |-> TRUE, inserted |-> FALSE, rows |-> EmptyBag]
    ELSE LET row == StatRow(puuid, match_id, json) IN
         [raises |-> FALSE, inserted |-> TRUE,
          rows |-> IF \E r \in Rows(tbl) : pms_pk(r) = pms_pk(row)
                   THEN EmptyBag ELSE SetToBag({row})]

\* insert_player_match_stats: [raises, inserted (the return value), rows added]
insert_player_match_stats(tbl, puuid, match_id, json) ==
    IF json.part[puuid] \in {"nopart", "unlisted"} \/ ~json.has_start
    THEN [raises |-> FALSE, inserted |-> FALSE, rows |-> EmptyBag]
    ELSE IF json.part[puuid] = "bad"
    THEN [raises |-> TRUE, inserted |-> FALSE, rows |-> EmptyBag]
    ELSE LET row == StatRow(puuid, match_id, json) IN
         [raises |-> FALSE, inserted |-> TRUE,
          rows |-> IF \E r \in Rows(tbl) : pms_pk(r) = pms_pk(row)
                   THEN EmptyBag ELSE SetToBag({row})]

----------------------------------------------------------------------------
(* ingest()                                                                *)

ZeroCounters == [new_matches |-> 0, new_player_rows |-> 0, skipped_by_queue |-> 0]

LocIdle ==
    [now |-> 0, default_start |-> 0, max_matches |-> 0, idx |-> 0, puuid |-> "",
     routing |-> "", start_time |-> 0, end_time |-> 0, count |-> 0, match_ids |-> <<>>,
     mi |-> 0,
     enabled |-> {}, match_json |-> NoMatch, counters |-> ZeroCounters]

\* the locals of one iteration of `for p in cfg.get("players", [])`
LocNextPlayer(l) ==
    [l EXCEPT !.idx = l.idx + 1, !.puuid = "", !.routing = "", !.start_time = 0,
              !.end_time = 0, !.count = 0, !.match_ids = <<>>, !.mi = 0, !.enabled = {},
              !.match_json = NoMatch]

HistInit ==
    [cursor0 |-> [u \in Puuids |-> None],   \* ingest_state when the run began
     attempted |-> {},                      \* config entries whose iteration began
     failed |-> {},                         \* config entries that took the except branch
     cp_writes |-> [i \in 1..2 |-> 0],      \* set_checkpoint calls per config entry
     handled |-> {},                        \* <<puuid, match_id>> candidates gone through
     good_end |-> [u \in Puuids |-> None],  \* end_time of the last iteration that reached line 326
     this_now |-> None,                     \* `now` of this run
     creator |-> [m \in MatchIds |-> ""],   \* the puuid whose iteration wrote the Match row
     stable |-> FALSE,                      \* last run returned, no entity failed, upstream as it was
     stable0 |-> FALSE,
     storage_failed |-> FALSE,              \* a write of this run raised sqlite3.Error
     rows0 |-> [matches |-> 0, stats |-> 0]]

\* lines 251-260
StartRun ==
    /\ pc = "idle"
    /\ pc' = "player"
    /\ loc' = [LocIdle EXCEPT
                 !.now = clock,
                 !.default_start = clock - cfg.lookback_days * 24 * 60 * 60,
                 !.max_matches = cfg.max_matches_per_player,
                 !.idx = 1]
    /\ hist' = [hist EXCEPT
                 !.cursor0 = ingest_state, !.attempted = {}, !.failed = {},
                 !.cp_writes = [i \in 1..2 |-> 0], !.handled = {},
                 !.this_now = Some(clock),
                 !.stable0 = hist.stable, !.stable = FALSE,
                 !.rows0 = [matches |-> BagCardinality(matches), stats |-> BagCardinality(stats)]]
    /\ UNCHANGED <<envVars, dbVars, ret>>
    /\ UNCHANGED <<riotVars, recVars, reportVars, bfVars, fnVars>>

\* an except branch that ends the loop over the players (break, or re-raise)
EntityFails_breaks ==
    /\ pc' = "player"
    /\ loc' = [LocNextPlayer(loc) EXCEPT !.idx = Len(cfg.players) + 1]
    /\ tx_matches' = EmptyBag
    /\ hist' = [hist EXCEPT !.failed = @ \cup {loc.idx}, !.attempted = @ \cup {loc.idx}]
    /\ UNCHANGED <<players, matches, stats, ingest_state>>

\* an except branch that falls through to the set_checkpoint of line 335
EntityFails_advances ==
    /\ pc' = "player"
    /\ loc' = LocNextPlayer(loc)
    /\ tx_matches' = EmptyBag
    /\ hist' = [hist EXCEPT !.failed = @ \cup {loc.idx}, !.attempted = @ \cup {loc.idx}]
    /\ ingest_state' = IF loc.puuid # ""
                       THEN [ingest_state EXCEPT ![loc.puuid] = Some(loc.now)]
                       ELSE ingest_state
    /\ UNCHANGED <<players, matches, stats>>

\* lines 329-331: the except branch of the current entity; `with conn`
\* has rolled back whatever the open transaction wrote
EntityFails ==
    /\ pc' = "player"
    /\ loc' = LocNextPlayer(loc)
    /\ tx_matches' = EmptyBag
    /\ hist' = [hist EXCEPT !.failed = @ \cup {loc.idx}, !.attempted = @ \cup {loc.idx}]
    /\ UNCHANGED <<players, matches, stats, ingest_state>>

\* lines 262-273: next config entry, routing, puuid, upsert_player
ResolvePlayer(outcome) ==
    /\ pc = "player"
    /\ loc.idx <= Len(cfg.players)
    /\ LET p == cfg.players[loc.idx] IN
       IF \/ ~p.has_platform
          \/ routing_for_platform_raises(cfg, p.platform)
          \/ parse_riot_id_raises(p.riot_id)
          \/ outcome = "raise"
       THEN EntityFails
       ELSE LET routing == routing_for_platform(cfg, p.platform)
                puuid == AccountPuuid(parse_riot_id(p.riot_id))
            IN /\ players' = upsert_player(players, puuid, p.riot_id, p.platform, routing)
               /\ loc' = [loc EXCEPT !.puuid = puuid, !.routing = routing]
               /\ pc' = "list"
               /\ hist' = [hist EXCEPT !.attempted = @ \cup {loc.idx}]
               /\ UNCHANGED <<matches, stats, ingest_state, tx_matches>>
    /\ UNCHANGED <<envVars, ret>>
    /\ UNCHANGED <<riotVars, recVars, reportVars, bfVars, fnVars>>

\* a listing count without the ceiling
ListCount_uncapped(max_matches) == max_matches

\* line 284: count=min(max_matches, 100)
ListCount(max_matches) == Min(max_matches, 100)

\* lines 275-288: window, match-id listing, enabled set
ListMatches(outcome) ==
    /\ pc = "list"
    /\ IF outcome = "raise"
       THEN EntityFails
       ELSE LET checkpoint == get_checkpoint(ingest_state, loc.puuid)
                start_time == IF checkpoint.present THEN checkpoint.v ELSE loc.default_start
                end_time == loc.now
                count == ListCount(loc.max_matches)
            IN /\ loc' = [loc EXCEPT
                            !.start_time = start_time,
                            !.end_time = end_time,
                            !.count = count,
                            !.match_ids = get_match_ids(loc.puuid, start_time, end_time,
                                                        count),
                            !.enabled = enabled_queue_ids(cfg, cfg.players[loc.idx]),
                            !.mi = 1]
               /\ pc' = "match"
               /\ UNCHANGED <<dbVars, hist>>
    /\ UNCHANGED <<envVars, ret>>
    /\ UNCHANGED <<riotVars, recVars, reportVars, bfVars, fnVars>>

\* a filter that lets every payload through
RejectedByQueue_never(json, enabled) == FALSE

\* a filter that also rejects a payload without a queueId
RejectedByQueue_or_none(json, enabled) ==
    ~json.queueId.present \/ json.queueId.v \notin enabled

\* queue_id is not None and queue_id not in enabled
RejectedByQueue(json, enabled) == json.queueId.present /\ json.queueId.v \notin enabled

\* a counter that is never incremented
Bump_none(l, field) == l

Bump(l, field) == [l EXCEPT !.counters[field] = @ + 1]

NextMatch(l) == [l EXCEPT !.mi = @ + 1, !.match_json = NoMatch]

Handled(h, puuid, match_id) == [h EXCEPT !.handled = @ \cup {<<puuid, match_id>>}]

\* the stat insert as a plain INSERT into a table without its key
insert_player_match_stats_plain(tbl, puuid, match_id, json) ==
    LET r == insert_player_match_stats(tbl, puuid, match_id, json) IN
    IF r.inserted THEN [r EXCEPT !.rows = SetToBag({StatRow(puuid, match_id, json)})] ELSE r

\* ProcessMatch without the row check of lines 308-313 and without OR IGNORE
ProcessMatch_reinserts(outcome) ==
    /\ pc = "match"
    /\ loc.mi <= Len(loc.match_ids)
    /\ LET match_id == loc.match_ids[loc.mi]
           json == get_match(match_id)
       IN
       IF ~match_exists(MatchesView, match_id)
       THEN IF outcome = "raise"
            THEN EntityFails
            ELSE IF RejectedByQueue(json, loc.enabled)
            THEN /\ loc' = NextMatch(Bump(loc, "skipped_by_queue"))
                 /\ hist' = Handled(hist, loc.puuid, match_id)
                 /\ UNCHANGED <<pc, dbVars>>
            ELSE /\ tx_matches' = insert_match_row(MatchesView, match_id, loc.routing, json)
                 /\ loc' = [loc EXCEPT !.match_json = json]
                 /\ pc' = "tx"
                 /\ UNCHANGED <<hist, players, matches, stats, ingest_state>>
       ELSE IF FALSE
            THEN /\ loc' = NextMatch(loc)
                 /\ hist' = Handled(hist, loc.puuid, match_id)
                 /\ UNCHANGED <<pc, dbVars>>
            ELSE IF outcome = "raise"
            THEN EntityFails
            ELSE IF RejectedByQueue(json, loc.enabled)
            THEN /\ loc' = NextMatch(Bump(loc, "skipped_by_queue"))
                 /\ hist' = Handled(hist, loc.puuid, match_id)
                 /\ UNCHANGED <<pc, dbVars>>
            ELSE LET r == insert_player_match_stats_plain(stats, loc.puuid, match_id, json) IN
                 IF r.raises
                 THEN EntityFails
                 ELSE /\ stats' = stats (+) r.rows
                      /\ loc' = NextMatch(IF r.inserted THEN Bump(loc, "new_player_rows") ELSE loc)
                      /\ hist' = Handled(hist, loc.puuid, match_id)
                      /\ UNCHANGED <<pc, players, matches, ingest_state, tx_matches>>
    /\ UNCHANGED <<envVars, ret>>
    /\ UNCHANGED <<riotVars, recVars, reportVars, bfVars, fnVars>>

\* ProcessMatch with a Match row that the later ingestion of the match
\* writes again
ProcessMatch_rewrites(outcome) ==
    /\ pc = "match"
    /\ loc.mi <= Len(loc.match_ids)
    /\ LET match_id == loc.match_ids[loc.mi]
           json == get_match(match_id)
       IN
       IF ~match_exists(MatchesView, match_id)
       THEN IF outcome = "raise"
            THEN EntityFails
            ELSE IF RejectedByQueue(json, loc.enabled)
            THEN /\ loc' = NextMatch(Bump(loc, "skipped_by_queue"))
                 /\ hist' = Handled(hist, loc.puuid, match_id)
                 /\ UNCHANGED <<pc, dbVars>>
            ELSE /\ tx_matches' = insert_match_row(MatchesView, match_id, loc.routing, json)
                 /\ loc' = [loc EXCEPT !.match_json = json]
                 /\ pc' = "tx"
                 /\ UNCHANGED <<hist, players, matches, stats, ingest_state>>
       ELSE IF stat_exists(stats, loc.puuid, match_id)
            THEN /\ loc' = NextMatch(loc)
                 /\ hist' = Handled(hist, loc.puuid, match_id)
                 /\ UNCHANGED <<pc, dbVars>>
            ELSE IF outcome = "raise"
            THEN EntityFails
            ELSE IF RejectedByQueue(json, loc.enabled)
            THEN /\ loc' = NextMatch(Bump(loc, "skipped_by_queue"))
                 /\ hist' = Handled(hist, loc.puuid, match_id)
                 /\ UNCHANGED <<pc, dbVars>>
            ELSE LET r == insert_player_match_stats(stats, loc.puuid, match_id, json) IN
                 IF r.raises
                 THEN EntityFails
                 ELSE /\ stats' = stats (+) r.rows
                      /\ loc' = NextMatch(IF r.inserted THEN Bump(loc, "new_player_rows") ELSE loc)
                      /\ hist' = Handled(hist, loc.puuid, match_id)
                      /\ matches' = SetToBag({MatchRow(match_id, loc.routing, json)})
                                      (+) [old \in {x \in Rows(matches) : x.match_id # match_id}
                                              |-> matches[old]]
                      /\ UNCHANGED <<pc, players, ingest_state, tx_matches>>
    /\ UNCHANGED <<envVars, ret>>
    /\ UNCHANGED <<riotVars, recVars, reportVars, bfVars, fnVars>>

\* lines 291-298 and 307-323: one candidate of `for match_id in match_ids`,
\* up to the point where the transaction of lines 300-302 has written the
\* Match row
ProcessMatch(outcome) ==
    /\ pc = "match"
    /\ loc.mi <= Len(loc.match_ids)
    /\ LET match_id == loc.match_ids[loc.mi]
           json == get_match(match_id)
       IN
       IF ~match_exists(MatchesView, match_id)
       THEN IF outcome = "raise"
            THEN EntityFails
            ELSE IF RejectedByQueue(json, loc.enabled)
            THEN /\ loc' = NextMatch(Bump(loc, "skipped_by_queue"))
                 /\ hist' = Handled(hist, loc.puuid, match_id)
                 /\ UNCHANGED <<pc, dbVars>>
            ELSE /\ tx_matches' = insert_match_row(MatchesView, match_id, loc.routing, json)
                 /\ loc' = [loc EXCEPT !.match_json = json]
                 /\ pc' = "tx"
                 /\ UNCHANGED <<hist, players, matches, stats, ingest_state>>
       ELSE IF stat_exists(stats, loc.puuid, match_id)
            THEN /\ loc' = NextMatch(loc)
                 /\ hist' = Handled(hist, loc.puuid, match_id)
                 /\ UNCHANGED <<pc, dbVars>>
            ELSE IF outcome = "raise"
            THEN EntityFails
            ELSE IF RejectedByQueue(json, loc.enabled)
            THEN /\ loc' = NextMatch(Bump(loc, "skipped_by_queue"))
                 /\ hist' = Handled(hist, loc.puuid, match_id)
                 /\ UNCHANGED <<pc, dbVars>>
            ELSE LET r == insert_player_match_stats(stats, loc.puuid, match_id, json) IN
                 IF r.raises
                 THEN EntityFails
                 ELSE /\ stats' = stats (+) r.rows
                      /\ loc' = NextMatch(IF r.inserted THEN Bump(loc, "new_player_rows") ELSE loc)
                      /\ hist' = Handled(hist, loc.puuid, match_id)
                      /\ UNCHANGED <<pc, players, matches, ingest_state, tx_matches>>
    /\ UNCHANGED <<envVars, ret>>
    /\ UNCHANGED <<riotVars, recVars, reportVars, bfVars, fnVars>>

\* the stat insert outside a transaction: the Match row already written
\* stays when the stat insert raises
InsertStatsAndCommit_keeps ==
    /\ pc = "tx"
    /\ LET match_id == loc.match_ids[loc.mi]
           r == insert_player_match_stats(stats, loc.puuid, match_id, loc.match_json)
       IN
       /\ matches' = matches (+) tx_matches
       /\ stats' = stats (+) r.rows
       /\ tx_matches' = EmptyBag
       /\ UNCHANGED <<players, ingest_state>>
       /\ IF r.raises
          THEN /\ pc' = "player"
               /\ loc' = LocNextPlayer(loc)
               /\ hist' = [hist EXCEPT !.failed = @ \cup {loc.idx},
                                       !.creator[match_id] = loc.puuid]
          ELSE /\ loc' = NextMatch(IF r.inserted
                                   THEN Bump(Bump(loc, "new_matches"), "new_player_rows")
                                   ELSE Bump(loc, "new_matches"))
               /\ hist' = [Handled(hist, loc.puuid, match_id) EXCEPT
                              !.creator[match_id] = loc.puuid]
               /\ pc' = "match"
    /\ UNCHANGED <<envVars, ret>>
    /\ UNCHANGED <<riotVars, recVars, reportVars, bfVars, fnVars>>

\* lines 302-305: the stat insert inside the transaction opened by the Match
\* insert, then the commit of `with conn` (or its rollback on an exception)
InsertStatsAndCommit ==
    /\ pc = "tx"
    /\ LET match_id == loc.match_ids[loc.mi]
           r == insert_player_match_stats(stats, loc.puuid, match_id, loc.match_json)
       IN
       IF r.raises
       THEN EntityFails
       ELSE /\ matches' = matches (+) tx_matches
            /\ stats' = stats (+) r.rows
            /\ tx_matches' = EmptyBag
            /\ loc' = NextMatch(IF r.inserted
                                THEN Bump(Bump(loc, "new_matches"), "new_player_rows")
                                ELSE Bump(loc, "new_matches"))
            /\ hist' = [Handled(hist, loc.puuid, match_id) EXCEPT !.creator[match_id] = loc.puuid]
            /\ pc' = "match"
            /\ UNCHANGED <<players, ingest_state>>
    /\ UNCHANGED <<envVars, ret>>
    /\ UNCHANGED <<riotVars, recVars, reportVars, bfVars, fnVars>>

\* lines 325-327: the candidates are through, first set_checkpoint
Checkpoint ==
    /\ pc = "match"
    /\ loc.mi > Len(loc.match_ids)
    /\ ingest_state' = set_checkpoint(ingest_state, loc.puuid, loc.end_time)
    /\ pc' = "cp2"
    /\ hist' = [hist EXCEPT !.cp_writes[loc.idx] = @ + 1,
                            !.good_end[loc.puuid] = Some(loc.end_time)]
    /\ UNCHANGED <<envVars, players, matches, stats, tx_matches, loc, ret>>
    /\ UNCHANGED <<riotVars, recVars, reportVars, bfVars, fnVars>>

\* the end of the iteration without the second set_checkpoint
CheckpointAgain_skipped ==
    /\ pc = "cp2"
    /\ pc' = "player"
    /\ loc' = LocNextPlayer(loc)
    /\ UNCHANGED <<envVars, dbVars, ret, hist>>
    /\ UNCHANGED <<riotVars, recVars, reportVars, bfVars, fnVars>>

\* lines 333-337: set_checkpoint once more, after the try statement
CheckpointAgain ==
    /\ pc = "cp2"
    /\ ingest_state' = set_checkpoint(ingest_state, loc.puuid, loc.end_time)
    /\ pc' = "player"
    /\ loc' = LocNextPlayer(loc)
    /\ hist' = [hist EXCEPT !.cp_writes[loc.idx] = @ + 1]
    /\ UNCHANGED <<envVars, players, matches, stats, tx_matches, ret>>
    /\ UNCHANGED <<riotVars, recVars, reportVars, bfVars, fnVars>>

\* lines 339-343
Return ==
    /\ pc = "player"
    /\ loc.idx > Len(cfg.players)
    /\ ret' = Some(loc.counters)
    /\ pc' = "returned"
    /\ loc' = LocIdle
    /\ hist' = [hist EXCEPT !.stable = (hist.failed = {})]
    /\ UNCHANGED <<envVars, dbVars>>
    /\ UNCHANGED <<riotVars, recVars, reportVars, bfVars, fnVars>>

\* what of the history outlives the process
HistKept(h) ==
    [HistInit EXCEPT !.good_end = h.good_end, !.creator = h.creator, !.stable = h.stable]

\* main(), lines 355-357: the connection is closed and the process ends
Exit ==
    /\ pc = "returned"
    /\ pc' = "idle"
    /\ ret' = None
    /\ hist' = HistKept(hist)
    /\ UNCHANGED <<envVars, dbVars, loc>>
    /\ UNCHANGED <<riotVars, recVars, reportVars, bfVars, fnVars>>

\* the process is terminated: the open transaction is lost with it
Crash ==
    /\ pc \notin {"idle", "returned"}
    /\ pc' = "idle"
    /\ loc' = LocIdle
    /\ tx_matches' = EmptyBag
    /\ hist' = [HistKept(hist) EXCEPT !.stable = FALSE]
    /\ UNCHANGED <<envVars, players, matches, stats, ingest_state, ret>>
    /\ UNCHANGED <<riotVars, recVars, reportVars, bfVars, fnVars>>

\* reset_ingest.py: DELETE FROM ingest_state
ResetIngest ==
    /\ pc = "idle"
    /\ ingest_state' = [u \in Puuids |-> None]
    /\ hist' = [hist EXCEPT !.good_end = [u \in Puuids |-> None]]
    /\ UNCHANGED <<envVars, players, matches, stats, tx_matches, pc, loc, ret>>
    /\ UNCHANGED <<riotVars, recVars, reportVars, bfVars, fnVars>>

\* a day passes
Tick ==
    /\ pc = "idle"
    /\ clock < MaxClock * DaySecs
    /\ clock' = clock + DaySecs
    /\ UNCHANGED <<cfg, upstream, dbVars, runVars>>
    /\ UNCHANGED <<riotVars, recVars, reportVars, bfVars, fnVars>>

\* a match that started now ends and appears in the match API
UpstreamPublish(match_id, payload) ==
    /\ pc = "idle"
    /\ ~upstream[match_id].exists
    /\ \A m \in MatchIds : m < match_id => upstream[m].exists
    /\ upstream' = [upstream EXCEPT ![match_id] = payload]
    /\ hist' = [hist EXCEPT !.stable = FALSE]
    /\ UNCHANGED <<cfg, clock, dbVars, pc, loc, ret>>
    /\ UNCHANGED <<riotVars, recVars, reportVars, bfVars, fnVars>>

InitIngest ==
    /\ cfg \in CfgChoices
    /\ clock = 0
    /\ upstream = [m \in MatchIds |-> NoMatch]
    /\ players = [u \in Puuids |-> NoPlayerRow]
    /\ matches = EmptyBag
    /\ stats = EmptyBag
    /\ ingest_state = [u \in Puuids |-> None]
    /\ tx_matches = EmptyBag
    /\ pc = "idle"
    /\ loc = LocIdle
    /\ ret = None
    /\ hist = HistInit

\* a write of the current step raises sqlite3.Error (a constraint other than
\* the keys that INSERT OR IGNORE absorbs, a locked or full database).
\* Lines 272, 300-302, 321-322 and 326-327 are inside the try statement: the
\* except branch of lines 329-331 takes the error and the loop goes on.
\* Line 335 is outside of it: the error leaves ingest() and ends the process.
StorageError ==
    /\ \/ /\ pc = "player"
          /\ loc.idx <= Len(cfg.players)
          /\ LET p == cfg.players[loc.idx] IN
                /\ p.has_platform
                /\ ~routing_for_platform_raises(cfg, p.platform)
                /\ ~parse_riot_id_raises(p.riot_id)
       \/ /\ pc = "match"
          /\ loc.mi <= Len(loc.match_ids)
          /\ LET match_id == loc.match_ids[loc.mi] IN
                /\ ~RejectedByQueue(get_match(match_id), loc.enabled)
                /\ \/ ~match_exists(MatchesView, match_id)
                   \/ ~stat_exists(stats, loc.puuid, match_id)
       \/ /\ pc = "match"
          /\ loc.mi > Len(loc.match_ids)
       \/ pc = "tx"
       \/ pc = "cp2"
    /\ IF pc = "cp2"
       THEN /\ pc' = "idle"
            /\ loc' = LocIdle
            /\ hist' = [HistKept(hist) EXCEPT !.stable = FALSE]
       ELSE /\ pc' = "player"
            /\ loc' = LocNextPlayer(loc)
            /\ hist' = [hist EXCEPT !.failed = @ \cup {loc.idx}, !.attempted = @ \cup {loc.idx},
                                    !.storage_failed = TRUE]
    /\ tx_matches' = EmptyBag
    /\ UNCHANGED <<envVars, players, matches, stats, ingest_state, ret>>
    /\ UNCHANGED <<riotVars, recVars, reportVars, bfVars, fnVars>>

\* ---- a store that starts empty under an upstream of three matches
BatchMatchIds == {1, 2, 3}

\* one entity, lookback of 7 days
CfgSingle ==
    [players |-> <<Player(RiotIdA, TRUE, "euw1", {})>>,
     enabled_queues |-> {420}, lookback_days |-> 7, max_matches_per_player |-> 70]

BatchCfgs == {CfgSingle} \cup CfgChoices

BatchPayloads ==
    { Payload(Some(420), TRUE, 0, PartMap("ok", "ok")),
      Payload(Some(450), TRUE, 0, PartMap("ok", "ok")),
      Payload(Some(420), TRUE, 0, PartMap("nopart", "ok")) }

InitBatch ==
    /\ cfg \in BatchCfgs
    /\ clock = 0
    /\ upstream \in [BatchMatchIds -> BatchPayloads]
    /\ players = [u \in Puuids |-> NoPlayerRow]
    /\ matches = EmptyBag
    /\ stats = EmptyBag
    /\ ingest_state = [u \in Puuids |-> None]
    /\ tx_matches = EmptyBag
    /\ pc = "idle"
    /\ loc = LocIdle
    /\ ret = None
    /\ hist = [HistInit EXCEPT !.creator = [m \in BatchMatchIds |-> ""]]

\* one ingest() call after another
NextBatch ==
    \/ StartRun
    \/ \E o \in RiotOutcomes : ResolvePlayer(o)
    \/ \E o \in RiotOutcomes : ListMatches(o)
    \/ \E o \in RiotOutcomes : ProcessMatch(o)
    \/ InsertStatsAndCommit
    \/ Checkpoint
    \/ CheckpointAgain
    \/ Return
    \/ Exit

\* ingest() calls whose writes can fail
NextStorage ==
    \/ NextBatch
    \/ StorageError

NextIngest ==
    \/ StartRun
    \/ \E o \in RiotOutcomes : ResolvePlayer(o)
    \/ \E o \in RiotOutcomes : ListMatches(o)
    \/ \E o \in RiotOutcomes : ProcessMatch(o)
    \/ InsertStatsAndCommit
    \/ Checkpoint
    \/ CheckpointAgain
    \/ Return
    \/ Exit
    \/ Crash
    \/ ResetIngest
    \/ Tick
    \/ \E m \in MatchIds, pl \in Payloads(clock) : UpstreamPublish(m, pl)

----------------------------------------------------------------------------
(* riot_get                                                                *)

max_retries == 6

BackoffCap == 30

\* the upstream's possible answers to one requests.get
Responses ==
    { [kind |-> "http", status |-> s, has_retry_after |-> FALSE, retry_after |-> 0]
        : s \in {200, 429, 500, 502, 503, 504, 404} }
    \cup { [kind |-> "http", status |-> 429, has_retry_after |-> TRUE, retry_after |-> 5] }
    \cup { [kind |-> "neterr", status |-> 0, has_retry_after |-> FALSE, retry_after |-> 0] }

NoLast == [kind |-> "none", exc |-> "", status |-> 0]
NoResult == [kind |-> "none", exc |-> "", status |-> 0]

\* a wait that ignores the Retry-After header
RetryAfter_fixed(r) == 2

\* int(r.headers.get("Retry-After", "2"))
RetryAfter(r) == IF r.has_retry_after THEN r.retry_after ELSE 2

\* a backoff without its ceiling
Backoff_uncapped(attempt) == 2 ^ (attempt + 1)

\* min(2 ** (attempt + 1), 30)
Backoff(attempt) == IF 2 ^ (attempt + 1) < BackoffCap THEN 2 ^ (attempt + 1) ELSE BackoffCap

\* requests.Response.raise_for_status raises HTTPError for 4xx and 5xx
RaisesForStatus(status) == status >= 400 /\ status < 600

IsTransientStatus(status) == status \in {500, 502, 503, 504}

\* lines 31-32: a riot_get call begins
RgEnter ==
    /\ rg_pc \in {"idle", "done"}
    /\ rg_pc' = "loop"
    /\ rg_attempt' = 0
    /\ rg_last' = NoLast
    /\ rg_resps' = <<>>
    /\ rg_sleeps' = <<>>
    /\ rg_result' = NoResult

RgStart ==
    /\ RgEnter
    /\ UNCHANGED <<ingestVars, recVars, reportVars, bfVars, fnVars>>

\* a loop in which a 429 does not use up an attempt
RgAttempt_free429(r) ==
    /\ rg_pc = "loop"
    /\ rg_attempt < max_retries
    /\ rg_resps' = Append(rg_resps, r)
    /\ IF r.kind = "http" /\ r.status = 200
       THEN /\ rg_last' = [kind |-> "response", exc |-> "", status |-> r.status]
            /\ rg_pc' = "done"
            /\ rg_result' = [kind |-> "return", exc |-> "", status |-> r.status]
            /\ UNCHANGED <<rg_sleeps, rg_attempt>>
       ELSE /\ rg_last' = [kind |-> "response", exc |-> "", status |-> r.status]
            /\ rg_sleeps' = Append(rg_sleeps, 2)
            /\ rg_attempt' = IF r.status = 429 THEN rg_attempt ELSE rg_attempt + 1
            /\ UNCHANGED <<rg_pc, rg_result>>
    /\ UNCHANGED <<ingestVars, recVars, reportVars, bfVars, fnVars>>

\* one iteration of `for attempt in range(max_retries)`
RgAttempt(r) ==
    /\ rg_pc = "loop"
    /\ rg_attempt < max_retries
    /\ rg_resps' = Append(rg_resps, r)
    /\ IF r.kind = "neterr"
       THEN \* requests.get raised: except branch
            /\ rg_last' = [kind |-> "exception", exc |-> "ConnectionError", status |-> 0]
            /\ rg_sleeps' = Append(rg_sleeps, Backoff(rg_attempt))
            /\ rg_attempt' = rg_attempt + 1
            /\ UNCHANGED <<rg_pc, rg_result>>
       ELSE IF r.status = 429
       THEN /\ rg_last' = [kind |-> "response", exc |-> "", status |-> r.status]
            /\ rg_sleeps' = Append(rg_sleeps, RetryAfter(r))
            /\ rg_attempt' = rg_attempt + 1
            /\ UNCHANGED <<rg_pc, rg_result>>
       ELSE IF IsTransientStatus(r.status)
       THEN /\ rg_last' = [kind |-> "response", exc |-> "", status |-> r.status]
            /\ rg_sleeps' = Append(rg_sleeps, Backoff(rg_attempt))
            /\ rg_attempt' = rg_attempt + 1
            /\ UNCHANGED <<rg_pc, rg_result>>
       ELSE IF RaisesForStatus(r.status)
       THEN \* r.raise_for_status() raises HTTPError inside the try; HTTPError
            \* is a RequestException, so the except branch takes it
            /\ rg_last' = [kind |-> "exception", exc |-> "HTTPError", status |-> r.status]
            /\ rg_sleeps' = Append(rg_sleeps, Backoff(rg_attempt))
            /\ rg_attempt' = rg_attempt + 1
            /\ UNCHANGED <<rg_pc, rg_result>>
       ELSE \* return r.json()
            /\ rg_last' = [kind |-> "response", exc |-> "", status |-> r.status]
            /\ rg_pc' = "done"
            /\ rg_result' = [kind |-> "return", exc |-> "", status |-> r.status]
            /\ UNCHANGED <<rg_sleeps, rg_attempt>>
    /\ UNCHANGED <<ingestVars, recVars, reportVars, bfVars, fnVars>>

\* the loop runs out and the function falls off its end, returning None
RgExhausted_returns ==
    /\ rg_pc = "loop"
    /\ rg_attempt = max_retries
    /\ rg_pc' = "done"
    /\ rg_result' = [kind |-> "return", exc |-> "", status |-> rg_last.status]
    /\ UNCHANGED <<rg_attempt, rg_last, rg_resps, rg_sleeps>>
    /\ UNCHANGED <<ingestVars, recVars, reportVars, bfVars, fnVars>>

\* the loop runs out and the failure of the first attempt is raised
RgExhausted_first ==
    /\ rg_pc = "loop"
    /\ rg_attempt = max_retries
    /\ rg_pc' = "done"
    /\ rg_result' =
         IF rg_resps[1].kind = "neterr"
         THEN [kind |-> "raise", exc |-> "ConnectionError", status |-> 0]
         ELSE [kind |-> "raise", exc |-> "HTTPError", status |-> rg_resps[1].status]
    /\ UNCHANGED <<rg_attempt, rg_last, rg_resps, rg_sleeps>>
    /\ UNCHANGED <<ingestVars, recVars, reportVars, bfVars, fnVars>>

\* the loop ran out: lines 62-65
RgExhausted ==
    /\ rg_pc = "loop"
    /\ rg_attempt = max_retries
    /\ rg_pc' = "done"
    /\ rg_result' =
         IF rg_last.kind = "response"
         THEN [kind |-> "raise", exc |-> "HTTPError", status |-> rg_last.status]
         ELSE [kind |-> "raise", exc |-> rg_last.exc, status |-> rg_last.status]
    /\ UNCHANGED <<rg_attempt, rg_last, rg_resps, rg_sleeps>>
    /\ UNCHANGED <<ingestVars, recVars, reportVars, bfVars, fnVars>>

InitRiot ==
    /\ rg_pc = "idle"
    /\ rg_attempt = 0
    /\ rg_last = NoLast
    /\ rg_resps = <<>>
    /\ rg_sleeps = <<>>
    /\ rg_result = NoResult

----------------------------------------------------------------------------
(* records engine                                                          *)

\* A record value v stands for the float v.i + v.f * 1e-9, 0 <= v.f < Nano,
\* so that the epsilon 1e-9 of update_record_* is one unit of v.f.
Nano == 1000000000

Val(i, f) == [i |-> i, f |-> f]

\* a > b on the represented floats
Gt(a, b) == a.i > b.i \/ (a.i = b.i /\ a.f > b.f)

\* v + 1e-9
PlusEps(v) == IF v.f + 1 = Nano THEN Val(v.i + 1, 0) ELSE Val(v.i, v.f + 1)

\* v - 1e-9
MinusEps(v) == IF v.f = 0 THEN Val(v.i - 1, Nano - 1) ELSE Val(v.i, v.f - 1)

\* every key of the report is maintained by one of the two operations only
\* (weekly_report.py:603-770); "x" stands for a max key, "y" for a min key
RecordKeysMax == {"x"}
RecordKeysMin == {"y"}
RecordKeys == RecordKeysMax \cup RecordKeysMin
RecordValues == {Val(9, 0), Val(10, 0), Val(10, 1), Val(10, 2), Val(11, 0)}
RecordMetas == {"m1", "m2"}

MaxRecCalls == 3
MaxRecClock == 1

\* the update_record_* calls of main(), in the order of lines 603-770
ReportRecordSteps ==
    << [key |-> "highest_weekly_csmin", op |-> "max"],
       [key |-> "lowest_weekly_csmin", op |-> "min"],
       [key |-> "most_mayhem_games_week", op |-> "max"],
       [key |-> "worst_kda_game", op |-> "min"],
       [key |-> "best_stat_score", op |-> "max"],
       [key |-> "highest_avg_time_dead", op |-> "max"] >>

ReportKeys == {ReportRecordSteps[i].key : i \in 1..Len(ReportRecordSteps)}

NoRecord == [present |-> FALSE, value |-> Val(0, 0), meta |-> "", updated_at |-> 0]

\* get_record: None when the key has no row
get_record(recs, key) == recs[key]

\* INSERT ... ON CONFLICT(key) DO UPDATE
set_record(recs, key, value, meta, ts) ==
    [recs EXCEPT ![key] = [present |-> TRUE, value |-> value, meta |-> meta, updated_at |-> ts]]

\* the comparison without its epsilon
IsNewMax_noeps(prev, new_value) == ~prev.present \/ Gt(new_value, prev.value)

IsNewMax(prev, new_value) == ~prev.present \/ Gt(new_value, PlusEps(prev.value))

\* the comparison of update_record_min without its epsilon
IsNewMin_noeps(prev, new_value) == ~prev.present \/ Gt(prev.value, new_value)

\* a comparison that takes every value for a new minimum
IsNewMin_always(prev, new_value) == TRUE

IsNewMin(prev, new_value) == ~prev.present \/ Gt(MinusEps(prev.value), new_value)

RecCallsMade == Len(rec_hist["x"]) + Len(rec_hist["y"])

RecordCall(key, new_value, meta, is_new) ==
    LET prev == get_record(records, key) IN
    /\ records' = IF is_new THEN set_record(records, key, new_value, meta, rec_clock) ELSE records
    /\ rec_ret' = [op_key |-> key, arg |-> new_value, meta |-> meta, is_new |-> is_new,
                   prev |-> prev]
    /\ RecCallsMade < MaxRecCalls
    /\ rec_hist' = [rec_hist EXCEPT ![key] =
                       Append(@, [arg |-> new_value, is_new |-> is_new,
                                  stored |-> records'[key].value])]
    /\ UNCHANGED rec_clock

update_record_max(key, new_value, meta) ==
    /\ RecordCall(key, new_value, meta, IsNewMax(get_record(records, key), new_value))
    /\ UNCHANGED <<ingestVars, riotVars, reportVars, bfVars, fnVars>>

update_record_min(key, new_value, meta) ==
    /\ RecordCall(key, new_value, meta, IsNewMin(get_record(records, key), new_value))
    /\ UNCHANGED <<ingestVars, riotVars, reportVars, bfVars, fnVars>>

RecTick ==
    /\ rec_clock < MaxRecClock
    /\ rec_clock' = rec_clock + 1
    /\ UNCHANGED <<records, rec_ret, rec_hist>>
    /\ UNCHANGED <<ingestVars, riotVars, reportVars, bfVars, fnVars>>

InitRecords ==
    /\ records = [k \in RecordKeys \cup ReportKeys |-> NoRecord]
    /\ rec_ret = [op_key |-> "", arg |-> Val(0, 0), meta |-> "", is_new |-> FALSE,
                  prev |-> NoRecord]
    /\ rec_hist = [k \in RecordKeys |-> <<>>]
    /\ rec_clock = 0

----------------------------------------------------------------------------
(* weekly report: stats helpers                                            *)

\* the counters of kda_ratio calls range over 0..MaxStat
MaxStat == 5

StatInputs == {None} \cup {Some(i) : i \in 0..MaxStat}

\* int(x or 0)
IntOr0(x) == IF x.present THEN x.v ELSE 0

RECURSIVE GCD(_, _)
GCD(a, b) == IF b = 0 THEN a ELSE GCD(b, a % b)

\* the float n / d, d > 0, as a fraction in lowest terms
Rat(n, d) == LET g == GCD(n, d) IN [num |-> n \div g, den |-> d \div g]

\* the ratio without the assists
kda_ratio_noassists(k, d, a) ==
    LET dd == IntOr0(d) IN
    IF dd = 0 THEN Rat(IntOr0(k), 1) ELSE Rat(IntOr0(k), dd)

kda_ratio(k, d, a) ==
    LET dd == IntOr0(d) IN
    IF dd = 0
    THEN Rat(IntOr0(k) + IntOr0(a), 1)
    ELSE Rat(IntOr0(k) + IntOr0(a), dd)

NoKdaCall == [called |-> FALSE, k |-> None, d |-> None, a |-> None, result |-> Rat(0, 1)]

KdaCall(k, d, a) ==
    /\ kda_call' = [called |-> TRUE, k |-> k, d |-> d, a |-> a, result |-> kda_ratio(k, d, a)]
    /\ UNCHANGED <<ingestVars, riotVars, recVars, rp, bfVars, fnVars>>

NextKda == \E k \in StatInputs, d \in StatInputs, a \in StatInputs : KdaCall(k, d, a)

----------------------------------------------------------------------------
(* weekly report: main()                                                   *)

\* strings are sequences of characters here
AramPrefix == <<"a", "r", "a", "m">>

\* the label of a queue of riot.enabled_queues: 450 is ARAM
QueueLabel(q) ==
    IF q = 450 THEN [present |-> TRUE, v |-> <<"A", "R", "A", "M">>]
    ELSE [present |-> TRUE, v |-> <<"R", "a", "n", "k", "e", "d">>]

\* cfg["riot"]["enabled_queues"]: a dict of entries with an id and a label
EnabledQueues(c) == [q \in c.enabled_queues |-> [id |-> q, label |-> QueueLabel(q)]]

\* str.lower() on the letters of the labels
LowerChar(ch) ==
    CASE ch = "A" -> "a" [] ch = "R" -> "r" [] ch = "M" -> "m" [] OTHER -> ch

Lower(str) == [i \in 1..Len(str) |-> LowerChar(str[i])]

\* str.strip()
RECURSIVE Strip(_)
Strip(str) ==
    IF str = <<>> THEN <<>>
    ELSE IF Head(str) = " " THEN Strip(Tail(str))
    ELSE IF str[Len(str)] = " " THEN Strip(SubSeq(str, 1, Len(str) - 1))
    ELSE str

\* str.startswith(p)
StartsWith(str, p) == Len(p) <= Len(str) /\ SubSeq(str, 1, Len(p)) = p

\* label = (q.get("label") or "").lower().strip();
\* any(label.startswith(p.lower()) for p in prefixes)
LabelMatches(q, prefixes) ==
    LET label == Strip(Lower(IF q.label.present THEN q.label.v ELSE <<>>))
    IN \E p \in prefixes : StartsWith(label, Lower(p))

\* an inclusion that compares the label as it is written
queue_ids_including_labels_cased(enabled_queues, included_prefixes) ==
    { enabled_queues[k].id :
        k \in { x \in DOMAIN enabled_queues :
                  \E p \in included_prefixes :
                      StartsWith(IF enabled_queues[x].label.present
                                 THEN enabled_queues[x].label.v ELSE <<>>, p) } }

queue_ids_excluding_labels(enabled_queues, excluded_prefixes) ==
    { enabled_queues[k].id :
        k \in { x \in DOMAIN enabled_queues :
                  ~LabelMatches(enabled_queues[x], excluded_prefixes) } }

queue_ids_including_labels(enabled_queues, included_prefixes) ==
    { enabled_queues[k].id :
        k \in { x \in DOMAIN enabled_queues :
                  LabelMatches(enabled_queues[x], included_prefixes) } }

\* SELECT puuid, riot_id FROM players
PresentPlayers(tbl) == {u \in DOMAIN tbl : tbl[u].present}

\* COUNT(*) over the player_match_stats rows of a puuid in the window whose
\* queue_id is one of qs
GamesOf(tbl, puuid, start_ts, qs) ==
    BagCardinality([r \in {x \in Rows(tbl) : /\ x.puuid = puuid
                                             /\ x.game_start_ts >= start_ts
                                             /\ x.queue_id.present
                                             /\ x.queue_id.v \in qs} |-> tbl[r]])

\* the same count over player_match_stats JOIN matches
GamesJoined(tbl, mtbl, puuid, start_ts, qs) ==
    BagCardinality([r \in {x \in Rows(tbl) : /\ x.puuid = puuid
                                             /\ x.game_start_ts >= start_ts
                                             /\ x.queue_id.present
                                             /\ x.queue_id.v \in qs
                                             /\ match_exists(mtbl, x.match_id)} |-> tbl[r]])

\* the greatest of a set of naturals, 0 for the empty set
MaxOf(S) == IF S = {} THEN 0 ELSE CHOOSE x \in S : \A y \in S : x >= y

\* len(f"**{riot_id}**\n{text}\n\n") for a player with games in the window
\* (the six-line block of lines 545-552) and for one without ("0 games in
\* last N days"), for riot ids of a dozen characters
EntryLenPlayed == 330
EntryLenIdle == 45

\* lines 893, 917-918
ChunkLimit == 3500
FixedEmbeds == 5
BatchSize == 10

\* lines 892-914: the number of player embeds, from entry i on, with
\* current_chunk of length cur and n chunks appended so far
RECURSIVE PlayerEmbeds(_, _, _, _)
PlayerEmbeds(entries, i, cur, n) ==
    IF i > Len(entries) THEN (IF cur > 0 THEN n + 1 ELSE n)
    ELSE IF cur + entries[i] > ChunkLimit
    THEN PlayerEmbeds(entries, i + 1, entries[i], n + 1)
    ELSE PlayerEmbeds(entries, i + 1, cur + entries[i], n)

\* the values the report derives from columns the stat rows here do not
\* carry (cs per minute, kda of a game, stomp score, minutes dead)
ReportValues == {Val(9, 0), Val(11, 0)}

ReportOutcomes == {"ok", "fail"}

RpIdle ==
    [pc |-> "idle", start_ts |-> 0, players |-> {}, entries |-> <<>>, has_cs |-> FALSE,
     mayhem |-> 0, has_dead |-> FALSE, step |-> 0, n_embeds |-> 0, i |-> 0, sent |-> 0,
     fault |-> FALSE]

\* lines 411-431: webhook, config, window, records table, players
RpStart(webhook_set) ==
    /\ rp.pc = "idle"
    /\ IF ~webhook_set \/ PresentPlayers(players) = {}
       THEN rp' = [RpIdle EXCEPT !.pc = "failed", !.fault = ~webhook_set]
       ELSE rp' = [RpIdle EXCEPT !.pc = "agg",
                                 !.start_ts = rec_clock - cfg.lookback_days * 24 * 60 * 60,
                                 !.players = PresentPlayers(players)]
    /\ UNCHANGED <<ingestVars, riotVars, recVars, kda_call, bfVars, fnVars>>

\* lines 434-589: the weekly aggregates and one summary per player, sorted
\* by games
RpAggregate ==
    /\ rp.pc = "agg"
    /\ LET stat_queue_ids == queue_ids_excluding_labels(EnabledQueues(cfg), {AramPrefix})
           fun_queue_ids == queue_ids_including_labels(EnabledQueues(cfg), {AramPrefix})
           games == [u \in rp.players |-> GamesOf(stats, u, rp.start_ts, stat_queue_ids)]
           played == Cardinality({u \in rp.players : games[u] > 0})
       IN rp' = [rp EXCEPT
                   !.pc = "records",
                   !.step = 1,
                   !.entries = [i \in 1..Cardinality(rp.players) |->
                                   IF i <= played THEN EntryLenPlayed ELSE EntryLenIdle],
                   !.has_cs = \E u \in PresentPlayers(players) :
                                 GamesJoined(stats, matches, u, rp.start_ts,
                                             stat_queue_ids) >= 2,
                   !.mayhem = MaxOf({GamesOf(stats, u, rp.start_ts, fun_queue_ids)
                                       : u \in PresentPlayers(players)}),
                   !.has_dead = \E u \in PresentPlayers(players) :
                                   GamesOf(stats, u, rp.start_ts, stat_queue_ids) >= 1]
    /\ UNCHANGED <<ingestVars, riotVars, recVars, kda_call, bfVars, fnVars>>

\* the award of the step has a candidate this week
HasCandidate(step) ==
    CASE step \in {1, 2} -> rp.has_cs
      [] step = 3 -> rp.mayhem > 0
      [] step \in {4, 5} -> \E u \in PresentPlayers(players) :
                               GamesJoined(stats, matches, u, rp.start_ts,
                                           queue_ids_excluding_labels(EnabledQueues(cfg), {AramPrefix})) >= 1
      [] OTHER -> rp.has_dead

\* lines 782-918: the embeds of the report
EmbedCount(entries) == FixedEmbeds + PlayerEmbeds(entries, 1, 0, 0)

\* lines 831-844 and 782-915: the new-record list reads the six is_new
\* flags; cs_best_record_is_new and cs_worst_record_is_new are bound only
\* inside `if cs_candidates:` (lines 599-600), so line 841 raises
\* UnboundLocalError when there was no candidate; otherwise the embeds are
\* built
BuildEmbeds(r) ==
    IF r.has_cs
    THEN [r EXCEPT !.pc = "post", !.step = 0, !.i = 0, !.n_embeds = EmbedCount(r.entries)]
    ELSE [r EXCEPT !.pc = "failed"]

\* one of the update_record_* calls of lines 591-776 with its commit, or
\* the award without a candidate; after the last one the embeds are built.
\* fault: the store or the webhook made the run fail
RpRecord(v, outcome) ==
    /\ rp.pc = "records"
    /\ LET st == ReportRecordSteps[rp.step]
           new_value == IF rp.step = 3 THEN Val(rp.mayhem, 0) ELSE v
           prev == get_record(records, st.key)
           is_new == IF st.op = "max" THEN IsNewMax(prev, new_value)
                     ELSE IsNewMin(prev, new_value)
           next == IF rp.step = Len(ReportRecordSteps)
                   THEN BuildEmbeds(rp)
                   ELSE [rp EXCEPT !.step = @ + 1]
       IN IF ~HasCandidate(rp.step)
          THEN /\ rp' = next
               /\ UNCHANGED records
          ELSE IF outcome = "fail"
          THEN /\ rp' = [rp EXCEPT !.pc = "failed", !.fault = TRUE]
               /\ UNCHANGED records
          ELSE /\ records' = IF is_new
                             THEN set_record(records, st.key, new_value, "m1", rec_clock)
                             ELSE records
               /\ rp' = next
    /\ UNCHANGED <<rec_ret, rec_hist, rec_clock>>
    /\ UNCHANGED <<ingestVars, riotVars, kda_call, bfVars, fnVars>>

\* lines 918-919: one post_embeds call; raise_for_status ends main()
RpPost(outcome) ==
    /\ rp.pc = "post"
    /\ rp.i < rp.n_embeds
    /\ rp' = IF outcome = "ok"
             THEN [rp EXCEPT !.i = @ + BatchSize, !.sent = @ + 1]
             ELSE [rp EXCEPT !.pc = "failed", !.fault = TRUE]
    /\ UNCHANGED <<ingestVars, riotVars, recVars, kda_call, bfVars, fnVars>>

\* a close that also clears the ingestion cursors
RpClose_resets ==
    /\ rp.pc = "post"
    /\ rp.i >= rp.n_embeds
    /\ rp' = [rp EXCEPT !.pc = "done"]
    /\ ingest_state' = [u \in DOMAIN ingest_state |-> None]
    /\ UNCHANGED <<envVars, players, matches, stats, tx_matches, runVars>>
    /\ UNCHANGED <<riotVars, recVars, kda_call, bfVars, fnVars>>

\* lines 921-922
RpClose ==
    /\ rp.pc = "post"
    /\ rp.i >= rp.n_embeds
    /\ rp' = [rp EXCEPT !.pc = "done"]
    /\ UNCHANGED <<ingestVars, riotVars, recVars, kda_call, bfVars, fnVars>>

\* the process is over
RpExit ==
    /\ rp.pc \in {"done", "failed"}
    /\ rp' = RpIdle
    /\ UNCHANGED <<ingestVars, riotVars, recVars, kda_call, bfVars, fnVars>>

InitReport ==
    /\ rp = RpIdle
    /\ kda_call = NoKdaCall

NextReport ==
    \/ \E w \in BOOLEAN : RpStart(w)
    \/ RpAggregate
    \/ \E v \in ReportValues, o \in ReportOutcomes : RpRecord(v, o)
    \/ \E o \in ReportOutcomes : RpPost(o)
    \/ RpClose
    \/ RpExit

\* ---- reporting runs over a store that ingestion has filled
ManyPlayers == 51

ReportPlayerCounts == {0, 2, ManyPlayers}

\* the players table of n tracked players
PlayersOf(n) ==
    [u \in 1..ManyPlayers |->
        IF u <= n THEN [present |-> TRUE, riot_id |-> RiotIdA, platform |-> "euw1",
                        routing |-> "europe"]
        ELSE NoPlayerRow]

\* every player has a ranked game this week; with `more` the first one has
\* two of them and an ARAM game
StatsOf(n, more) ==
    SetToBag({ [puuid |-> u, match_id |-> 1, queue_id |-> Some(420), game_start_ts |-> 0]
                 : u \in 1..n }
             \cup { [puuid |-> u, match_id |-> m, queue_id |-> Some(IF m = 2 THEN 420 ELSE 450),
                     game_start_ts |-> 0] :
                       u \in (1..n) \cap (IF more THEN {1} ELSE {}), m \in {2, 3} })

\* the Match rows of those games
MatchesOf(n, more) ==
    SetToBag({ [match_id |-> r.match_id, routing |-> "europe", queue_id |-> r.queue_id,
                game_start_ts |-> Some(r.game_start_ts)] : r \in Rows(StatsOf(n, more)) })

InitReportRuns ==
    /\ cfg \in CfgChoices
    /\ clock = 0
    /\ upstream = [m \in MatchIds |-> NoMatch]
    /\ \E n \in ReportPlayerCounts, more \in BOOLEAN :
          /\ players = PlayersOf(n)
          /\ stats = StatsOf(n, more)
          /\ matches = MatchesOf(n, more)
    /\ ingest_state = [u \in Puuids |-> None]
    /\ tx_matches = EmptyBag
    /\ pc = "idle"
    /\ loc = LocIdle
    /\ ret = None
    /\ hist = HistInit

----------------------------------------------------------------------------
(* weekly report: helper functions called on their own                     *)

NoFnCall == [fn |-> "", args |-> <<>>, result |-> FALSE]

\* n: requests of the riot_get calls the entity's iteration has completed
\* before the last call began; calls: riot_get calls it has begun; at: where
\* the iteration was when the last call began
NoRequests == [n |-> 0, calls |-> 0, at |-> <<"", 0, 0>>]

InitFn == fn_call = NoFnCall /\ requests = NoRequests

\* the calls see at most MaxGames rows of a kind
MaxGames == 5

\* the player_match_stats rows of one puuid as is_support_this_week sees
\* them: how many in-window rows have position UTILITY, how many in-window
\* rows another position, and how many UTILITY rows are older than start_ts
SupportInputs ==
    [sup_in : 0..MaxGames, other_in : 0..MaxGames, sup_old : 0..1]

\* lines 214-222: SELECT position, COUNT(*) ... WHERE game_start_ts >= ?
\* GROUP BY position
PositionGroups(t) ==
    { g \in { [position |-> "UTILITY", n |-> t.sup_in],
              [position |-> "MIDDLE", n |-> t.other_in] } : g.n > 0 }

RECURSIVE SumN(_)
SumN(G) == IF G = {} THEN 0 ELSE LET g == CHOOSE x \in G : TRUE IN g.n + SumN(G \ {g})

\* a classification that asks for more than the threshold
is_support_this_week_strict(t) ==
    LET rows == PositionGroups(t)
        total_games == SumN(rows)
        support_games == SumN({ r \in rows : r.position = "UTILITY" })
    IN total_games # 0 /\ support_games * 10 > 6 * total_games

\* is_support_this_week with threshold=0.6; support_games / total_games >=
\* 0.6 is compared as 10 * support_games >= 6 * total_games (the quotient of
\* two small integers rounds to the double of 0.6 exactly when it is 3/5)
is_support_this_week(t) ==
    LET rows == PositionGroups(t)
        total_games == SumN(rows)
        support_games == SumN({ r \in rows : r.position = "UTILITY" })
    IN total_games # 0 /\ support_games * 10 >= 6 * total_games

SupportCall(t) ==
    /\ fn_call' = [fn |-> "is_support_this_week", args |-> t,
                   result |-> is_support_this_week(t)]
    /\ UNCHANGED <<ingestVars, riotVars, recVars, reportVars, bfVars, requests>>

\* ---- the weekly awards

MIN_GAMES_FOR_AWARDS == 2

\* the players of the award calls, as SELECT ... ORDER BY riot_id lists them
AwardRiotIds == <<"A#1", "B#1">>

\* games of a player in the window, and counters of the award calls
MaxAwardGames == 3
MaxAwardStat == 2

\* the aggregate row of one player: COUNT(*), SUM(kills), SUM(deaths),
\* SUM(assists)
Aggregates ==
    [games : 0..MaxAwardGames, k : 0..MaxAwardStat, d : 0..MaxAwardStat, a : 0..1]

\* x < y for two floats given as fractions
RatLess(x, y) == x.num * y.den < y.num * x.den

\* the per-player loop: (riot_id, games, kda) of the players with
\* games >= MIN_GAMES_FOR_AWARDS, in the order of the players
candidates_for_awards(aggs) ==
    SelectSeq([i \in 1..Len(AwardRiotIds) |->
                  [riot_id |-> AwardRiotIds[i], games |-> aggs[i].games,
                   kda |-> kda_ratio(Some(aggs[i].k), Some(aggs[i].d), Some(aggs[i].a))]],
              LAMBDA c : c.games >= MIN_GAMES_FOR_AWARDS)

\* key=lambda x: (x[2], x[1]) compared as tuples
BestKeyLess(x, y) ==
    \/ RatLess(x.kda, y.kda)
    \/ x.kda = y.kda /\ x.games < y.games

\* a selection that compares the KDA alone
best_kda_only(cands) ==
    IF cands = <<>> THEN None
    ELSE LET i == CHOOSE i \in 1..Len(cands) :
                      /\ \A j \in 1..Len(cands) : ~RatLess(cands[i].kda, cands[j].kda)
                      /\ \A j \in 1..(i - 1) : RatLess(cands[j].kda, cands[i].kda)
         IN Some(cands[i].riot_id)

\* if candidates_for_awards: best = max(candidates_for_awards, key=...):
\* max returns the first of the maximal items
best_kda(cands) ==
    IF cands = <<>> THEN None
    ELSE LET i == CHOOSE i \in 1..Len(cands) :
                      /\ \A j \in 1..Len(cands) : ~BestKeyLess(cands[i], cands[j])
                      /\ \A j \in 1..(i - 1) : BestKeyLess(cands[j], cands[i])
         IN Some(cands[i].riot_id)

\* the stat rows the statline query reads, in the window and of the enabled
\* queues: one per (riot_id, match_id) at most, MaxAwardRows in all
MaxAwardRows == 2
StatlineMatches == {1, 2}
StatlineKeys == {"A#1", "B#1"} \X StatlineMatches
StatlineValues == [kills : 0..1, deaths : 0..MaxAwardStat, assists : 0..1]
StatlineDurations == {300, 900, 1800}

\* the store of the given stat rows, whose first match lasted d seconds and
\* whose second match lasted 900
StatlineStore(rows, d) ==
    [rows |-> rows, duration_s |-> [m \in StatlineMatches |-> IF m = 1 THEN d ELSE 900]]

\* FROM player_match_stats s JOIN players p JOIN matches m
StatlineJoin(s) ==
    { [riot_id |-> k[1], match_id |-> k[2], kills |-> s.rows[k].kills,
       deaths |-> s.rows[k].deaths, assists |-> s.rows[k].assists,
       duration_s |-> s.duration_s[k[2]]] : k \in DOMAIN s.rows }

\* WHERE ... m.duration_s >= ? AND s.deaths > 0, min_duration_s=600
WorstEligible(s) == { r \in StatlineJoin(s) : r.duration_s >= 600 /\ r.deaths > 0 }

WorstRatio(r) == Rat(r.kills + r.assists, r.deaths)

\* ORDER BY (kills + assists) * 1.0 / deaths ASC, deaths DESC, duration_s DESC:
\* x sorts before y
WorstBefore(x, y) ==
    \/ RatLess(WorstRatio(x), WorstRatio(y))
    \/ WorstRatio(x) = WorstRatio(y) /\ x.deaths > y.deaths
    \/ WorstRatio(x) = WorstRatio(y) /\ x.deaths = y.deaths /\ x.duration_s > y.duration_s

\* LIMIT 1 ... fetchone(): the rows the query can return. Rows that are equal
\* in the three sort terms come in an order the statement does not fix (it
\* follows the scan the engine chooses and the order the rows were stored in).
compute_worst_stat_line(s) ==
    IF WorstEligible(s) = {} THEN {None}
    ELSE { Some(r) : r \in { x \in WorstEligible(s) :
                                 \A y \in WorstEligible(s) : ~WorstBefore(y, x) } }

\* ---- the two queue sets of main

\* riot.enabled_queues has at most MaxQueueKeys entries
MaxQueueKeys == 3
QueueKeys == 1..MaxQueueKeys

\* labels of the entries: none, upper case, padded mixed case, another
\* label, a label shorter than the prefix
QueueLabels ==
    { [present |-> FALSE, v |-> <<>>],
      [present |-> TRUE, v |-> <<"A", "R", "A", "M">>],
      [present |-> TRUE, v |-> <<" ", "a", "R", "a", "m", "x">>],
      [present |-> TRUE, v |-> <<"R", "a", "n", "k">>],
      [present |-> TRUE, v |-> <<"a", "r">>] }

QueueEntries == [id : {420, 450}, label : QueueLabels]

\* the enabled_queues lists over the given keys
QueueConfigs(keys) == UNION { [K -> QueueEntries] : K \in SUBSET keys }

\* main, lines 434-435
QueueSetsCall ==
    /\ fn_call.fn = "pending_queue_sets"
    /\ fn_call' = [fn |-> "queue_sets", args |-> fn_call.args,
                   result |-> [stat_queue_ids |->
                                  queue_ids_excluding_labels(fn_call.args, {AramPrefix}),
                               fun_queue_ids |->
                                  queue_ids_including_labels(fn_call.args, {AramPrefix})]]
    /\ UNCHANGED <<ingestVars, riotVars, recVars, reportVars, bfVars, requests>>

QueueInputs(keys) ==
    { [fn |-> "pending_queue_sets", args |-> x, result |-> None] : x \in QueueConfigs(keys) }

\* the aggregate rows of the players of a report
InitBestKda ==
    \E x \in [1..Len(AwardRiotIds) -> Aggregates] :
       fn_call = [fn |-> "pending_best_kda", args |-> x, result |-> None]

\* the stat rows, MaxAwardRows at most, that a statline query reads
InitWorstStatLine ==
    \E K \in SUBSET StatlineKeys :
       /\ Cardinality(K) <= MaxAwardRows
       /\ \E rows \in [K -> StatlineValues], d \in StatlineDurations :
             fn_call = [fn |-> "pending_worst_stat_line", args |-> StatlineStore(rows, d),
                        result |-> None]

\* main, the weekly KDA award
BestKdaCall ==
    /\ fn_call.fn = "pending_best_kda"
    /\ LET w == best_kda(candidates_for_awards(fn_call.args))
       IN fn_call' = [fn |-> "best_kda", args |-> fn_call.args, result |-> w,
                      again |-> FALSE, prev |-> w]
    /\ UNCHANGED <<ingestVars, riotVars, recVars, reportVars, bfVars, requests>>

\* main, the worst statline award
WorstStatLineCall ==
    /\ fn_call.fn = "pending_worst_stat_line"
    /\ \E w \in compute_worst_stat_line(fn_call.args) :
          fn_call' = [fn |-> "compute_worst_stat_line", args |-> fn_call.args,
                      result |-> w, again |-> FALSE, prev |-> w]
    /\ UNCHANGED <<ingestVars, riotVars, recVars, reportVars, bfVars, requests>>

\* a second evaluation over a store of the same content
AwardAgain ==
    /\ fn_call.fn \in {"best_kda", "compute_worst_stat_line"}
    /\ ~fn_call.again
    /\ \E w \in IF fn_call.fn = "best_kda"
                 THEN {best_kda(candidates_for_awards(fn_call.args))}
                 ELSE compute_worst_stat_line(fn_call.args) :
          fn_call' = [fn_call EXCEPT !.result = w, !.prev = fn_call.result,
                                     !.again = TRUE]
    /\ UNCHANGED <<ingestVars, riotVars, recVars, reportVars, bfVars, requests>>

----------------------------------------------------------------------------
(* backlog_deadtime.py                                                     *)

LOOKBACK_DAYS == 7

\* line 69: commit every 50 updates
CommitEvery == 50

\* the frames of riot_get the interpreter allows on its stack before it raises
\* RecursionError (sys.getrecursionlimit(), 1000 by default; the program sets
\* none)
RecursionLimit == 3

\* depth: the calls of riot_get inside the call of line 47 (lines 15-20), one
\* per request that was answered 429
BfIdle == [pc |-> "idle", rows |-> <<>>, i |-> 0, updated |-> 0, tx |-> {}, depth |-> 0]

\* a selection that takes the rows whose time_dead_s is set as well
BackfillSelect_all(start_ts) ==
    { [puuid |-> x[1].puuid, match_id |-> x[1].match_id, routing |-> x[2].routing,
       game_start_ts |-> x[1].game_start_ts]
        : x \in { y \in Rows(stats) \X Rows(matches) :
                      /\ y[2].match_id = y[1].match_id
                      /\ y[1].game_start_ts >= start_ts } }

\* lines 30-37: the stat rows of the window whose time_dead_s is NULL, each
\* with the routing of its Match row
BackfillSelect(start_ts) ==
    { [puuid |-> x[1].puuid, match_id |-> x[1].match_id, routing |-> x[2].routing,
       game_start_ts |-> x[1].game_start_ts]
        : x \in { y \in Rows(stats) \X Rows(matches) :
                      /\ y[2].match_id = y[1].match_id
                      /\ y[1].game_start_ts >= start_ts
                      /\ ~y[1].time_dead_s.present } }

\* ORDER BY s.game_start_ts DESC
RECURSIVE BackfillOrder(_)
BackfillOrder(S) ==
    IF S = {} THEN <<>>
    ELSE LET r == CHOOSE x \in S : \A y \in S : x.game_start_ts >= y.game_start_ts
         IN <<r>> \o BackfillOrder(S \ {r})

\* the table after the UPDATEs of lines 62-65 held by the transaction
ApplyUpdates(tbl, tx) ==
    LET Hit(r) == { t \in tx : <<t.puuid, t.match_id>> = pms_pk(r) }
        New(r) == IF Hit(r) = {} THEN r
                  ELSE [r EXCEPT !.time_dead_s = Some((CHOOSE t \in Hit(r) : TRUE).value)]
        Image == { New(r) : r \in Rows(tbl) }
    IN [x \in Image |->
          BagCardinality([r \in { q \in Rows(tbl) : New(q) = x } |-> tbl[r]])]

\* lines 24-41: the window and the selection
BfStart ==
    /\ bf.pc \in {"idle", "done"}
    /\ LET start_ts == clock - LOOKBACK_DAYS * 24 * 60 * 60 IN
       bf' = [pc |-> "loop", rows |-> BackfillOrder(BackfillSelect(start_ts)), i |-> 1,
              updated |-> 0, tx |-> {}, depth |-> 0]
    /\ UNCHANGED <<ingestVars, riotVars, recVars, reportVars, fnVars>>

\* lines 16-20: a request of riot_get is answered 429; it sleeps and calls
\* itself with the same url, and no counter of the program limits the calls
BfRetry ==
    /\ bf.pc = "loop"
    /\ bf.i <= Len(bf.rows)
    /\ bf.depth < RecursionLimit
    /\ bf' = [bf EXCEPT !.depth = @ + 1]
    /\ UNCHANGED <<ingestVars, riotVars, recVars, reportVars, fnVars>>

\* line 20 with no frame left: the interpreter raises RecursionError, which
\* nothing catches, and the process ends with its transaction open
BfRecursionError ==
    /\ bf.pc = "loop"
    /\ bf.i <= Len(bf.rows)
    /\ bf.depth = RecursionLimit
    /\ bf' = BfIdle
    /\ UNCHANGED <<ingestVars, riotVars, recVars, reportVars, fnVars>>

\* lines 42-71: one iteration of `for i, row in enumerate(rows, start=1)`, from
\* the answer other than 429 that ends its riot_get call; an exception of
\* riot_get ends the process with its transaction open
BfRow(outcome) ==
    /\ bf.pc = "loop"
    /\ bf.i <= Len(bf.rows)
    /\ LET row == bf.rows[bf.i]
           match == get_match(row.match_id)
           raw == find_participant(match, row.puuid).totalTimeSpentDead
       IN IF outcome = "raise"
          THEN /\ bf' = BfIdle
               /\ UNCHANGED stats
          ELSE IF match.part[row.puuid] \in {"nopart", "unlisted"} \/ ~raw.present
          THEN /\ bf' = [bf EXCEPT !.i = @ + 1, !.depth = 0]
               /\ UNCHANGED stats
          ELSE LET tx == bf.tx \cup {[puuid |-> row.puuid, match_id |-> row.match_id,
                                      value |-> raw.v]}
                   updated == bf.updated + 1
               IN IF updated % CommitEvery = 0
                  THEN /\ stats' = ApplyUpdates(stats, tx)
                       /\ bf' = [bf EXCEPT !.i = @ + 1, !.updated = updated, !.tx = {},
                                           !.depth = 0]
                  ELSE /\ bf' = [bf EXCEPT !.i = @ + 1, !.updated = updated, !.tx = tx,
                                           !.depth = 0]
                       /\ UNCHANGED stats
    /\ UNCHANGED <<envVars, players, matches, ingest_state, tx_matches, runVars>>
    /\ UNCHANGED <<riotVars, recVars, reportVars, fnVars>>

\* lines 73-74: the last commit
BfFinish ==
    /\ bf.pc = "loop"
    /\ bf.i > Len(bf.rows)
    /\ stats' = ApplyUpdates(stats, bf.tx)
    /\ bf' = [bf EXCEPT !.pc = "done", !.tx = {}]
    /\ UNCHANGED <<envVars, players, matches, ingest_state, tx_matches, runVars>>
    /\ UNCHANGED <<riotVars, recVars, reportVars, fnVars>>

InitBf == bf = BfIdle

\* ---- ingestion runs and backfill passes over an upstream that revises
\* ---- the payloads it serves
RecMap(r1, r2) == [u \in Puuids |-> IF u = "u1" THEN r1 ELSE r2]

\* two entities of different regions under one enabled set
CfgTwoRegions ==
    [players |-> <<Player(RiotIdA, TRUE, "euw1", {}), Player(RiotIdB, TRUE, "na1", {})>>,
     enabled_queues |-> {420}, lookback_days |-> 7, max_matches_per_player |-> 70]

\* the payloads the match API serves for the match, in the order of its
\* revisions: a record without any counter next to a full one; no record of
\* the first entity; full records; no queueId and records that hold some of
\* the counters
BackfillPayloads ==
    << PayloadWith(Some(420), TRUE, 0, PartMap("ok", "ok"), RecMap("empty", "full")),
       PayloadWith(Some(420), TRUE, 0, PartMap("nopart", "ok"), RecMap("empty", "empty")),
       PayloadWith(Some(420), TRUE, 0, PartMap("ok", "ok"), RecMap("full", "full")),
       PayloadWith(None, TRUE, 0, PartMap("ok", "ok"), RecMap("partial", "partial")) >>

\* the match API serves a later revision of the payload of a match
UpstreamRevise(match_id, j) ==
    /\ upstream[match_id].exists
    /\ \E i \in 1..(j - 1) : upstream[match_id] = BackfillPayloads[i]
    /\ upstream' = [upstream EXCEPT ![match_id] = BackfillPayloads[j]]
    /\ hist' = [hist EXCEPT !.stable = FALSE]
    /\ UNCHANGED <<cfg, clock, dbVars, pc, loc, ret>>
    /\ UNCHANGED <<riotVars, recVars, reportVars, bfVars, fnVars>>

InitBackfillStore ==
    /\ cfg = CfgTwoRegions
    /\ clock = 0
    /\ \E i \in 1..Len(BackfillPayloads) :
          upstream = [m \in MatchIds |-> IF m = 1 THEN BackfillPayloads[i] ELSE NoMatch]
    /\ players = [u \in Puuids |-> NoPlayerRow]
    /\ matches = EmptyBag
    /\ stats = EmptyBag
    /\ ingest_state = [u \in Puuids |-> None]
    /\ tx_matches = EmptyBag
    /\ pc = "idle"
    /\ loc = LocIdle
    /\ ret = None
    /\ hist = HistInit

NextBackfill ==
    \/ NextBatch
    \/ \E m \in MatchIds, j \in 1..Len(BackfillPayloads) : UpstreamRevise(m, j)
    \/ BfStart
    \/ BfRetry
    \/ BfRecursionError
    \/ \E o \in RiotOutcomes : BfRow(o)
    \/ BfFinish

----------------------------------------------------------------------------
Init == InitIngest /\ InitRiot /\ InitRecords /\ InitReport /\ InitBf /\ InitFn

NextRiot ==
    \/ RgStart
    \/ \E r \in Responses : RgAttempt(r)
    \/ RgExhausted

NextRecords ==
    \/ \E k \in RecordKeysMax, v \in RecordValues, m \in RecordMetas : update_record_max(k, v, m)
    \/ \E k \in RecordKeysMin, v \in RecordValues, m \in RecordMetas : update_record_min(k, v, m)
    \/ RecTick

Spec == Init /\ [][NextIngest]_vars

SpecRiot == Init /\ [][NextRiot]_vars

SpecRecords == Init /\ [][NextRecords]_vars

\* the empty store next to the idle upstream client and reporting process
InitBatchRuns == InitBatch /\ InitRiot /\ InitRecords /\ InitReport /\ InitBf /\ InitFn

SpecBatch == InitBatchRuns /\ [][NextBatch]_vars

SpecKda == Init /\ [][NextKda]_vars

\* ---- an ingestion process and a reporting process on one store
InitOverlap ==
    /\ cfg \in CfgChoices
    /\ clock = 0
    /\ upstream \in [MatchIds -> BatchPayloads]
    /\ players = [u \in Puuids |-> NoPlayerRow]
    /\ matches = EmptyBag
    /\ stats = EmptyBag
    /\ ingest_state = [u \in Puuids |-> None]
    /\ tx_matches = EmptyBag
    /\ pc = "idle"
    /\ loc = LocIdle
    /\ ret = None
    /\ hist = HistInit

\* every interleaving of the steps of the two processes
NextOverlap ==
    \/ NextBatch
    \/ NextReport

InitOverlapRuns == InitOverlap /\ InitRiot /\ InitRecords /\ InitReport /\ InitBf /\ InitFn

SpecOverlap == InitOverlapRuns /\ [][NextOverlap]_vars

InitReportOnly == InitReportRuns /\ InitRiot /\ InitRecords /\ InitReport /\ InitBf /\ InitFn

SpecReport == InitReportOnly /\ [][NextReport]_vars

SpecStorage == InitBatchRuns /\ [][NextStorage]_vars

InitBackfillRuns == InitBackfillStore /\ InitRiot /\ InitRecords /\ InitReport /\ InitBf /\ InitFn

SpecBackfill == InitBackfillRuns /\ [][NextBackfill]_vars

\* ---- one ingest() call with the riot_get calls it makes

\* the answers of the upstream to the requests of the run
TermResponses ==
    { r \in Responses : \/ r.kind = "neterr"
                        \/ r.status = 200
                        \/ r.status = 429 /\ ~r.has_retry_after }

\* where the run is: statement, config entry, candidate
Pos == <<pc, loc.idx, loc.mi>>

\* the statement at hand calls riot_get: get_puuid (line 268, after the
\* routing and the riot id were found), get_match_ids (line 280) or
\* get_match (lines 293 and 314)
AtCallPoint ==
    \/ /\ pc = "player"
       /\ loc.idx <= Len(cfg.players)
       /\ cfg.players[loc.idx].has_platform
       /\ ~routing_for_platform_raises(cfg, cfg.players[loc.idx].platform)
       /\ ~parse_riot_id_raises(cfg.players[loc.idx].riot_id)
    \/ pc = "list"
    \/ /\ pc = "match"
       /\ loc.mi <= Len(loc.match_ids)
       /\ \/ ~match_exists(MatchesView, loc.match_ids[loc.mi])
          \/ ~stat_exists(stats, loc.puuid, loc.match_ids[loc.mi])

\* the run enters riot_get
TermCall ==
    /\ AtCallPoint
    /\ rg_pc # "loop"
    /\ requests.at # Pos
    /\ RgEnter
    /\ requests' = IF pc = "player"
                   THEN [n |-> 0, calls |-> 1, at |-> Pos]
                   ELSE [n |-> requests.n + Len(rg_resps), calls |-> requests.calls + 1,
                         at |-> Pos]
    /\ UNCHANGED <<ingestVars, recVars, reportVars, bfVars, fn_call>>

\* riot_get has returned or raised and the statement goes on with that
TermStep ==
    /\ AtCallPoint
    /\ rg_pc = "done"
    /\ requests.at = Pos
    /\ \/ ResolvePlayer(rg_result.kind)
       \/ ListMatches(rg_result.kind)
       \/ ProcessMatch(rg_result.kind)

\* a statement that does not get as far as riot_get: the config entry has
\* no usable platform or riot id, or the candidate has its stat row
TermSkip ==
    /\ ~AtCallPoint
    /\ \/ ResolvePlayer("raise")
       \/ ProcessMatch("return")

\* the store is empty, or an earlier run has ingested match 1 for u1
InitTerm ==
    /\ cfg \in {CfgTwoRegions} \cup CfgChoices
    /\ clock = 0
    /\ upstream \in [MatchIds -> {NoMatch, Payload(Some(420), TRUE, 0, PartMap("ok", "ok"))}]
    /\ players = [u \in Puuids |-> NoPlayerRow]
    /\ \E earlier \in BOOLEAN :
          IF earlier /\ upstream[1].exists
          THEN /\ matches = insert_match_row(EmptyBag, 1, "europe", upstream[1])
               /\ stats = insert_player_match_stats(EmptyBag, "u1", 1, upstream[1]).rows
          ELSE /\ matches = EmptyBag
               /\ stats = EmptyBag
    /\ ingest_state = [u \in Puuids |-> None]
    /\ tx_matches = EmptyBag
    /\ pc = "idle"
    /\ loc = LocIdle
    /\ ret = None
    /\ hist = HistInit
    /\ InitRiot /\ InitRecords /\ InitReport /\ InitBf /\ InitFn

NextTerm ==
    \/ StartRun
    \/ TermCall
    \/ \E r \in TermResponses : RgAttempt(r)
    \/ RgExhausted
    \/ TermStep
    \/ TermSkip
    \/ InsertStatsAndCommit
    \/ Checkpoint
    \/ CheckpointAgain
    \/ Return

SpecTerm == InitTerm /\ [][NextTerm]_vars

\* every request is answered and the single worker goes on
SpecTermFair == InitTerm /\ [][NextTerm]_vars /\ WF_vars(NextTerm)

NextSupport == \E t \in SupportInputs : SupportCall(t)

SpecSupport == Init /\ [][NextSupport]_vars

InitAwards ==
    /\ InitIngest /\ InitRiot /\ InitRecords /\ InitReport /\ InitBf
    /\ (InitBestKda \/ InitWorstStatLine)
    /\ requests = NoRequests

NextAwards == BestKdaCall \/ WorstStatLineCall \/ AwardAgain

SpecAwards == InitAwards /\ [][NextAwards]_vars

InitQueues ==
    /\ InitIngest /\ InitRiot /\ InitRecords /\ InitReport /\ InitBf
    /\ fn_call \in QueueInputs(QueueKeys)
    /\ requests = NoRequests

NextQueues == QueueSetsCall

SpecQueues == InitQueues /\ [][NextQueues]_vars

----------------------------------------------------------------------------
(* properties                                                              *)

\* the puuid a config entry stands for, "" when its riot id does not parse
EntryPuuid(i) ==
    LET p == cfg.players[i] IN
    IF parse_riot_id_raises(p.riot_id) THEN "" ELSE AccountPuuid(parse_riot_id(p.riot_id))

\* the enabled set of the config entry that stands for puuid u
EnabledFor(u) ==
    LET i == CHOOSE j \in 1..Len(cfg.players) : EntryPuuid(j) = u
    IN IF cfg.players[i].override # {} THEN cfg.players[i].override ELSE cfg.enabled_queues

\* the payload resolves to a stat row of u: participant record and start
Resolves(json, u) == json.part[u] = "ok" /\ json.has_start

\* insert_player_match_stats answers "not a participant" for u
NotParticipant(json, u) == json.part[u] \in {"nopart", "unlisted"} \/ ~json.has_start

Accepted(json, u) == ~json.queueId.present \/ json.queueId.v \in EnabledFor(u)

\* the iteration of config entry i is over in this run
Finished(i) == i \in hist.attempted /\ (pc = "returned" \/ (pc # "idle" /\ loc.idx > i))

OptLe(a, b) == a.present => (b.present /\ b.v >= a.v)

\* C1: however often the upstream lists a match for an entity, the store
\* holds at most one Match row per match_id and one EntityMatchStat row per
\* (entity, match), exactly one of each once an accepted, resolvable
\* candidate went through; and a run that follows a run which returned with
\* no failed entity, the upstream unchanged in between (cursors cleared or
\* not), leaves both row counts as they were.
IdempotentIngestion ==
    /\ \A m \in MatchIds : MatchRowCount(MatchesView, m) <= 1
    /\ \A u \in Puuids, m \in MatchIds : StatRowCount(stats, <<u, m>>) <= 1
    /\ \A h \in hist.handled :
         (Accepted(upstream[h[2]], h[1]) /\ Resolves(upstream[h[2]], h[1]))
            => /\ MatchRowCount(matches, h[2]) = 1
               /\ StatRowCount(stats, h) = 1
    /\ hist.stable0 => /\ BagCardinality(MatchesView) = hist.rows0.matches
                       /\ BagCardinality(stats) = hist.rows0.stats

\* a run after a clean run has gone through a candidate whose rows existed
IdempotentIngestionWitness ==
    /\ pc = "returned"
    /\ hist.stable0
    /\ \E h \in hist.handled :
         /\ MatchRowCount(matches, h[2]) = 1
         /\ StatRowCount(stats, h) = 1

\* C2 (as amended): no step of a run lowers or removes an entity's
\* last_end_time_ts, and the window start a run uses for an entity is the
\* end value of the latest run that completed this entity without failure
\* since the cursors were last cleared, or now minus the lookback when there
\* is none.
CheckpointMonotone ==
    [][ /\ (pc # "idle" => \A u \in Puuids : OptLe(ingest_state[u], ingest_state'[u]))
        /\ (pc = "list" /\ pc' = "match") =>
              loc'.start_time = IF hist.good_end[loc.puuid].present
                                THEN hist.good_end[loc.puuid].v
                                ELSE loc.now - cfg.lookback_days * DaySecs ]_vars

\* the cursor of an entity moved forward from the value the window began at
CheckpointMonotoneWitness ==
    /\ pc = "cp2"
    /\ hist.cursor0[loc.puuid].present
    /\ loc.start_time = hist.cursor0[loc.puuid].v
    /\ ingest_state[loc.puuid].v > hist.cursor0[loc.puuid].v

\* C2 (as stated): no step of a run lowers an entity's last_end_time_ts,
\* and the next run's window start equals the end value of the previous
\* run: when a run has returned, the cursor of every configured entity,
\* which is where its next window starts, is the end value of that run.
CheckpointChained ==
    /\ [][pc # "idle" => \A u \in Puuids : OptLe(ingest_state[u], ingest_state'[u])]_vars
    /\ [](pc = "returned" =>
            \A i \in 1..Len(cfg.players) :
                EntryPuuid(i) # "" => ingest_state[EntryPuuid(i)] = hist.this_now)

\* C3: no EntityMatchStat row is ever held for an entity and a match whose
\* payload category id is outside the entity's effective enabled set,
\* whether or not another entity's ingestion wrote the Match row.
CategoryFilter ==
    \A r \in Rows(stats) :
        upstream[r.match_id].queueId.present
            => upstream[r.match_id].queueId.v \in EnabledFor(r.puuid)

\* an entity went through a candidate of a category it has not enabled whose
\* Match row another entity wrote
CategoryFilterWitness ==
    \E h \in hist.handled :
        /\ match_exists(matches, h[2])
        /\ hist.creator[h[2]] \notin {"", h[1]}
        /\ ~Accepted(upstream[h[2]], h[1])
        /\ ~stat_exists(stats, h[1], h[2])
        /\ loc.counters.skipped_by_queue > 0

All503 == \A i \in 1..Len(rg_resps) : rg_resps[i].kind = "http" /\ rg_resps[i].status = 503

\* C4: answered 503 every time, riot_get makes exactly max_retries requests
\* and raises; it never makes more requests than that and never returns.
RetryTermination ==
    /\ Len(rg_resps) <= max_retries
    /\ (All503 /\ rg_pc = "done") =>
          /\ Len(rg_resps) = max_retries
          /\ rg_result.kind = "raise"
    /\ (All503 /\ rg_resps # <<>>) => rg_result.kind # "return"

RetryTerminationWitness ==
    /\ rg_pc = "done"
    /\ All503
    /\ Len(rg_resps) = max_retries
    /\ rg_result = [kind |-> "raise", exc |-> "HTTPError", status |-> 503]

IsClientError(r) == r.kind = "http" /\ r.status >= 400 /\ r.status < 500 /\ r.status # 429

\* C5: a 4xx answer other than 429 ends the call at once: it is the last
\* request, the call has raised, and no sleep follows it.
ClientErrorFailsFast ==
    \A i \in 1..Len(rg_resps) :
        IsClientError(rg_resps[i])
            => /\ i = Len(rg_resps)
               /\ rg_pc = "done"
               /\ rg_result.kind = "raise"
               /\ Len(rg_sleeps) < i

\* C6: a run that returns has begun the iteration of every config entry,
\* those after a failed entry included, and returns its counters.
FailureIsolation ==
    /\ pc = "returned" => /\ hist.attempted = 1..Len(cfg.players)
                          /\ ret.present
    /\ pc \in {"player", "list", "match", "tx", "cp2"} =>
          hist.attempted \in {1..(loc.idx - 1), 1..loc.idx}

\* an entry failed and a later entry was taken to its checkpoint
FailureIsolationWitness ==
    /\ pc = "returned"
    /\ \E i \in hist.failed : \E j \in hist.attempted \ hist.failed :
          j > i /\ hist.cp_writes[j] > 0

\* C7: the cursor of an entity whose iteration failed in this run is what it
\* was when the run began (absent if it was absent).
CursorUnchangedOnFailure ==
    \A i \in hist.failed :
        EntryPuuid(i) # "" => ingest_state[EntryPuuid(i)] = hist.cursor0[EntryPuuid(i)]

\* an entity with an older cursor failed after its window was listed
CursorUnchangedOnFailureWitness ==
    /\ pc = "returned"
    /\ \E i \in hist.failed :
          /\ EntryPuuid(i) # ""
          /\ hist.cursor0[EntryPuuid(i)].present
          /\ hist.cursor0[EntryPuuid(i)].v < hist.this_now.v
          /\ \E h \in hist.handled : h[1] = EntryPuuid(i)

\* C8 (as stated): every entity's iteration, failed or not, writes the
\* cursor exactly once, with the end value of the run.
CursorWrittenOnce ==
    \A i \in 1..Len(cfg.players) :
        Finished(i) => /\ hist.cp_writes[i] = 1
                       /\ EntryPuuid(i) # "" => ingest_state[EntryPuuid(i)] = hist.this_now

\* C8 (as amended): an iteration that fails never writes the cursor; one
\* that completes writes it with the end value of the run, by each of the
\* two set_checkpoint calls (lines 327 and 335).
CursorWrittenOnSuccess ==
    \A i \in 1..Len(cfg.players) :
        Finished(i) =>
            IF i \in hist.failed
            THEN hist.cp_writes[i] = 0
            ELSE /\ hist.cp_writes[i] = 2
                 /\ ingest_state[EntryPuuid(i)] = hist.this_now

CursorWrittenOnSuccessWitness ==
    /\ pc = "returned"
    /\ \E i \in hist.failed : hist.cp_writes[i] = 0
    /\ \E j \in hist.attempted \ hist.failed : hist.cp_writes[j] = 2

\* C9 (as stated): in every committed state a Match row is there exactly
\* when the EntityMatchStat row of the entity that wrote it is there.
MatchAndStatTogether ==
    /\ \A m \in MatchIds :
          match_exists(matches, m) =>
              /\ hist.creator[m] # ""
              /\ stat_exists(stats, hist.creator[m], m)
    /\ \A r \in Rows(stats) : match_exists(matches, r.match_id)

\* C9 (as amended): in every committed state, a Match row is there together
\* with the EntityMatchStat row of the entity that wrote it, or alone when
\* the payload held no participant record for that entity or no start
\* timestamp; and no EntityMatchStat row is there without its Match row.
MatchAndStatAtomic ==
    /\ \A m \in MatchIds :
          match_exists(matches, m) =>
              /\ hist.creator[m] # ""
              /\ \/ stat_exists(stats, hist.creator[m], m)
                 \/ NotParticipant(upstream[m], hist.creator[m])
    /\ \A r \in Rows(stats) : match_exists(matches, r.match_id)

\* a transaction holds a Match row whose stat insert is about to raise,
\* after the same iteration committed both rows of another match
MatchAndStatAtomicWitness ==
    /\ pc = "tx"
    /\ tx_matches # EmptyBag
    /\ loc.match_json.part[loc.puuid] = "bad"
    /\ \E m \in MatchIds :
          /\ <<loc.puuid, m>> \in hist.handled
          /\ hist.creator[m] = loc.puuid
          /\ match_exists(matches, m)
          /\ stat_exists(stats, loc.puuid, m)

\* new exceeds old by more than 1e-9, in units of 1e-9
ExceedsByEps(new, old) == (new.i - old.i) * Nano + (new.f - old.f) > 1

RecordMaxStep ==
    \A k \in RecordKeysMax :
        /\ records[k].present =>
              /\ records'[k].present
              /\ ~Gt(records[k].value, records'[k].value)
        /\ rec_hist'[k] # rec_hist[k] =>
              /\ rec_ret'.is_new <=>
                    (~records[k].present \/ ExceedsByEps(rec_ret'.arg, records[k].value))
              /\ rec_ret'.is_new =>
                    /\ records'[k].present
                    /\ records'[k].value = rec_ret'.arg
                    /\ records'[k].meta = rec_ret'.meta
              /\ ~rec_ret'.is_new => records'[k] = records[k]

RecordMaxExample ==
    \A k \in RecordKeysMax :
        (/\ Len(rec_hist[k]) = 3
         /\ rec_hist[k][1].arg = Val(10, 0)
         /\ rec_hist[k][2].arg = Val(9, 0)
         /\ rec_hist[k][3].arg = Val(11, 0))
        => /\ rec_hist[k][1].is_new /\ rec_hist[k][1].stored = Val(10, 0)
           /\ ~rec_hist[k][2].is_new /\ rec_hist[k][2].stored = Val(10, 0)
           /\ rec_hist[k][3].is_new /\ rec_hist[k][3].stored = Val(11, 0)

\* C10: over update_record_max calls on one key the stored value never
\* decreases; a call reports "new" and overwrites value and metadata exactly
\* when the key was absent or the new value exceeds the stored one by more
\* than 1e-9, and otherwise leaves the row (value, metadata, timestamp) as
\* it was; 10, 9, 11 give new, not new (10 stays), new (11).
RecordMaxMonotone == []RecordMaxExample /\ [][RecordMaxStep]_vars

RecordMaxMonotoneWitness ==
    /\ Len(rec_hist["x"]) = 3
    /\ rec_hist["x"][1] = [arg |-> Val(10, 0), is_new |-> TRUE, stored |-> Val(10, 0)]
    /\ rec_hist["x"][2] = [arg |-> Val(9, 0), is_new |-> FALSE, stored |-> Val(10, 0)]
    /\ rec_hist["x"][3] = [arg |-> Val(11, 0), is_new |-> TRUE, stored |-> Val(11, 0)]
    /\ records["x"].updated_at > 0

RecordMinStep ==
    \A k \in RecordKeysMin :
        /\ records[k].present =>
              /\ records'[k].present
              /\ ~Gt(records'[k].value, records[k].value)
        /\ rec_hist'[k] # rec_hist[k] =>
              /\ rec_ret'.is_new <=>
                    (~records[k].present \/ ExceedsByEps(records[k].value, rec_ret'.arg))
              /\ rec_ret'.is_new =>
                    /\ records'[k].present
                    /\ records'[k].value = rec_ret'.arg
                    /\ records'[k].meta = rec_ret'.meta
                    /\ records'[k].updated_at = rec_clock
              /\ ~rec_ret'.is_new => records'[k] = records[k]

\* C11: update_record_min overwrites the record and reports "new" exactly
\* when the key is absent or the new value is below the stored one by more
\* than 1e-9; otherwise it reports "not new" and leaves value, metadata and
\* timestamp as they were; over the calls on one key the stored value never
\* increases.
RecordMinMonotone == [][RecordMinStep]_vars

\* the stored minimum was lowered by a later call, after a call with a value
\* within 1e-9 of it was reported "not new"
RecordMinMonotoneWitness ==
    /\ Len(rec_hist["y"]) = 3
    /\ rec_hist["y"][1] = [arg |-> Val(10, 1), is_new |-> TRUE, stored |-> Val(10, 1)]
    /\ rec_hist["y"][2] = [arg |-> Val(10, 0), is_new |-> FALSE, stored |-> Val(10, 1)]
    /\ rec_hist["y"][3] = [arg |-> Val(9, 0), is_new |-> TRUE, stored |-> Val(9, 0)]
    /\ records["y"].updated_at > 0

\* the candidates of this run that the category filter rejected
RejectedThisRun ==
    { c \in hist.handled : RejectedByQueue(upstream[c[2]], EnabledFor(c[1])) }

\* the run of one entity, without a prior cursor, over an empty store, whose
\* listing holds three matches, two in an enabled category (enabled3 = 2)
ThreeListedTwoEnabled ==
    /\ Len(cfg.players) = 1
    /\ hist.failed = {}
    /\ hist.rows0 = [matches |-> 0, stats |-> 0]
    /\ ~hist.cursor0["u1"].present
    /\ DOMAIN upstream = BatchMatchIds
    /\ \A m \in BatchMatchIds : Resolves(upstream[m], "u1") /\ upstream[m].queueId.present
    /\ Cardinality({ m \in BatchMatchIds : upstream[m].queueId.v \in EnabledFor("u1") }) = 2

\* C12: the counters an ingestion run returns are the number of Match rows
\* the run added, the number of EntityMatchStat rows it added and the number
\* of fetched payloads its category filter rejected; an entity without a
\* cursor whose listing has three matches, two of them in an enabled
\* category, ends with 2 Match rows, 2 EntityMatchStat rows, 1 skipped and
\* the cursor at the run's now.
CountersMatchStore ==
    pc = "returned" =>
        /\ ret.v.new_matches = BagCardinality(matches) - hist.rows0.matches
        /\ ret.v.new_player_rows = BagCardinality(stats) - hist.rows0.stats
        /\ ret.v.skipped_by_queue = Cardinality(RejectedThisRun)
        /\ ThreeListedTwoEnabled =>
              /\ BagCardinality(matches) = 2
              /\ BagCardinality(stats) = 2
              /\ ret.v = [new_matches |-> 2, new_player_rows |-> 2, skipped_by_queue |-> 1]
              /\ ingest_state["u1"] = hist.this_now

CountersMatchStoreWitness ==
    /\ pc = "returned"
    /\ ThreeListedTwoEnabled
    /\ ret.v = [new_matches |-> 2, new_player_rows |-> 2, skipped_by_queue |-> 1]

\* C13: for non-negative integers k, d, a, kda_ratio(k, d, a) is (k + a) / d
\* when d > 0 and k + a when d = 0; kda(5,0,3) = 8.0 and kda(5,2,3) = 4.0.
KdaFormula ==
    (kda_call.called /\ kda_call.k.present /\ kda_call.d.present /\ kda_call.a.present) =>
        LET k == kda_call.k.v
            d == kda_call.d.v
            a == kda_call.a.v
            r == kda_call.result
        IN /\ r.den > 0
           /\ d > 0 => r.num * d = (k + a) * r.den
           /\ d = 0 => r = [num |-> k + a, den |-> 1]
           /\ (k = 5 /\ d = 0 /\ a = 3) => r = [num |-> 8, den |-> 1]
           /\ (k = 5 /\ d = 2 /\ a = 3) => r = [num |-> 4, den |-> 1]

KdaFormulaWitness ==
    /\ kda_call.called
    /\ <<kda_call.k, kda_call.d, kda_call.a>> = <<Some(5), Some(2), Some(3)>>
    /\ kda_call.result = [num |-> 4, den |-> 1]

Is429(r) == r.kind = "http" /\ r.status = 429

\* C14: after a 429 riot_get sleeps the Retry-After of the answer, 2 seconds
\* when the header is absent, and goes on to the next attempt; a 429 uses
\* up one attempt like every other failed request, so that a call issues at
\* most max_retries requests whatever the mix of 429, 5xx and network
\* failures.
RateLimitHandling ==
    /\ Len(rg_resps) <= max_retries
    /\ rg_pc = "loop" => rg_attempt = Len(rg_resps)
    /\ \A i \in 1..Len(rg_resps) :
          Is429(rg_resps[i]) =>
              /\ Len(rg_sleeps) >= i
              /\ rg_sleeps[i] = IF rg_resps[i].has_retry_after
                                THEN rg_resps[i].retry_after ELSE 2
              /\ (i = Len(rg_resps) /\ i < max_retries) => rg_pc = "loop"
              /\ (i = Len(rg_resps) /\ i = max_retries /\ rg_pc = "done")
                    => rg_result.kind = "raise"

\* a call that ran out of attempts on a mix of failures, its last a 429
RateLimitHandlingWitness ==
    /\ rg_pc = "done"
    /\ Len(rg_resps) = max_retries
    /\ Is429(rg_resps[1]) /\ rg_resps[1].has_retry_after /\ rg_sleeps[1] = 5
    /\ rg_resps[2].kind = "neterr"
    /\ rg_resps[3].kind = "http" /\ rg_resps[3].status = 503
    /\ Is429(rg_resps[max_retries]) /\ ~rg_resps[max_retries].has_retry_after
    /\ rg_sleeps[max_retries] = 2
    /\ rg_result.kind = "raise"

\* an entry of the configuration has no platform, or one that riot.regions
\* does not hold
ConfigMalformed ==
    \E i \in 1..Len(cfg.players) :
        \/ ~cfg.players[i].has_platform
        \/ routing_for_platform_raises(cfg, cfg.players[i].platform)

\* C15: under a malformed configuration the ingestion run aborts as a whole
\* before any upstream call and before any row is written: it never gets
\* past the resolution of an entity and the store stays empty.
ConfigErrorsFatal ==
    ConfigMalformed =>
        /\ pc \in {"idle", "player", "returned"}
        /\ \A u \in Puuids : ~players[u].present /\ ~ingest_state[u].present
        /\ matches = EmptyBag
        /\ stats = EmptyBag

\* C16: a storage failure during the writes of an entity aborts the whole
\* run, it is never handled as the failure of that entity with the run going
\* on; and the inserts of a Match or EntityMatchStat row whose key exists
\* raise nothing and add nothing.
StorageErrorsFatal ==
    /\ hist.storage_failed => pc = "idle"
    /\ \A r \in Rows(matches) :
          insert_match_row(matches, r.match_id, r.routing, upstream[r.match_id]) = EmptyBag
    /\ \A r \in Rows(stats) :
          LET x == insert_player_match_stats(stats, r.puuid, r.match_id, upstream[r.match_id])
          IN ~x.raises /\ x.rows = EmptyBag

\* C18: a reporting run that has failed, at whatever point, one of its
\* post_embeds calls included, has delivered none of its batches.
NoPartialNotification == rp.pc = "failed" => rp.sent = 0

\* a step of the reporting process
ReportStep == rp' # rp

\* a step of the ingestion process
IngestStep == <<pc, loc, ret>>' # <<pc, loc, ret>>

\* C17: a step of a reporting run leaves the Entity, Match, EntityMatchStat
\* and IngestCursor tables as they are and changes no row but Record rows;
\* a step of an ingestion run leaves every Record row as it is.
TableOwnership ==
    [][/\ ReportStep => /\ UNCHANGED <<players, matches, stats, ingest_state, tx_matches>>
                        /\ \A k \in DOMAIN records :
                              records'[k] # records[k] => k \in ReportKeys
       /\ IngestStep => records' = records]_vars

\* both processes are at work, each having written rows of its own
TableOwnershipWitness ==
    /\ rp.pc = "records"
    /\ \E k \in ReportKeys : records[k].present
    /\ pc = "match"
    /\ matches # EmptyBag
    /\ stats # EmptyBag

\* what a reader of the store sees: no EntityMatchStat row without its Match
\* row, a Match row with the stat row of the entity that wrote it unless the
\* payload resolved to none, and nothing of an open transaction
ReaderSeesWholeTransactions ==
    /\ \A r \in Rows(stats) : match_exists(matches, r.match_id)
    /\ \A r \in Rows(matches) :
          \/ stat_exists(stats, hist.creator[r.match_id], r.match_id)
          \/ NotParticipant(upstream[r.match_id], hist.creator[r.match_id])
    /\ \A r \in Rows(tx_matches) : ~match_exists(matches, r.match_id)

\* no step lowers a maximum, raises a minimum or removes a record
ReportRecordsMonotone ==
    \A i \in 1..Len(ReportRecordSteps) :
        LET k == ReportRecordSteps[i].key IN
        records[k].present =>
            /\ records'[k].present
            /\ IF ReportRecordSteps[i].op = "max"
               THEN ~Gt(records[k].value, records'[k].value)
               ELSE ~Gt(records'[k].value, records[k].value)

\* C19: while an ingestion run and a reporting run interleave their storage
\* operations, every state of the store, those the reporting run reads
\* included, holds whole match/stat transactions only, every Record moves in
\* its own direction only, and neither process changes rows of the other.
OverlapSafety ==
    /\ []ReaderSeesWholeTransactions
    /\ [][/\ ReportRecordsMonotone
          /\ ReportStep => UNCHANGED <<matches, stats>>
          /\ IngestStep => records' = records]_vars

\* the reporting run computes its aggregates while a transaction of the
\* ingestion run is open, after an earlier report left a minimum and with a
\* committed match in the store
OverlapSafetyWitness ==
    /\ pc = "tx"
    /\ tx_matches # EmptyBag
    /\ rp.pc = "agg"
    /\ records["worst_kda_game"].present
    /\ \E r \in Rows(stats) : match_exists(matches, r.match_id)

\* the candidate at hand has a committed Match row and the current entity
\* has no stat row for it
SharedCandidate ==
    /\ pc = "match"
    /\ loc.mi <= Len(loc.match_ids)
    /\ MatchRowCount(matches, loc.match_ids[loc.mi]) = 1
    /\ StatRowCount(stats, <<loc.puuid, loc.match_ids[loc.mi]>>) = 0

\* the step took the candidate at hand to its end
CandidateDone == pc' = "match" /\ loc'.mi = loc.mi + 1

SharedMatchStep ==
    SharedCandidate =>
        LET m == loc.match_ids[loc.mi]
            json == upstream[m]
        IN /\ matches' = matches
           /\ tx_matches' = EmptyBag
           /\ pc' # "tx"
           /\ pc' # "idle" => loc'.counters.new_matches = loc.counters.new_matches
           /\ CandidateDone =>
                 IF RejectedByQueue(json, enabled_queue_ids(cfg, cfg.players[loc.idx]))
                 THEN /\ stats' = stats
                      /\ loc'.counters = [loc.counters EXCEPT !.skipped_by_queue = @ + 1]
                 ELSE IF Resolves(json, loc.puuid)
                 THEN /\ stats' = stats (+) SetToBag({StatRow(loc.puuid, m, json)})
                      /\ loc'.counters = [loc.counters EXCEPT !.new_player_rows = @ + 1]
                 ELSE /\ stats' = stats
                      /\ loc'.counters = loc.counters

\* C20: for a candidate that has a Match row but no EntityMatchStat row of
\* the current entity, ingestion applies the category filter to the payload
\* and on acceptance inserts the stat row only: the Match row is neither
\* inserted again nor changed, new_matches stays as it is, and there is at
\* most one Match row per match_id.
SharedMatchRow ==
    /\ [](\A m \in MatchIds : MatchRowCount(matches, m) <= 1)
    /\ [][SharedMatchStep]_vars

\* the second entity got its stat row for a match whose Match row the first
\* entity wrote, without a new match counted in this run
SharedMatchRowWitness ==
    /\ pc = "match"
    /\ loc.counters.new_matches = 0
    /\ loc.counters.new_player_rows = 1
    /\ \E m \in MatchIds :
          /\ <<loc.puuid, m>> \in hist.handled
          /\ hist.creator[m] \notin {"", loc.puuid}
          /\ MatchRowCount(matches, m) = 1
          /\ StatRowCount(stats, <<loc.puuid, m>>) = 1
          /\ StatRowCount(stats, <<hist.creator[m], m>>) = 1

\* the candidate at hand has its Match row and the stat row of the current
\* entity
IngestedCandidate ==
    /\ pc = "match"
    /\ loc.mi <= Len(loc.match_ids)
    /\ MatchRowCount(matches, loc.match_ids[loc.mi]) = 1
    /\ StatRowCount(stats, <<loc.puuid, loc.match_ids[loc.mi]>>) = 1

AlreadyIngestedStep ==
    IngestedCandidate =>
        /\ UNCHANGED <<players, matches, stats, ingest_state>>
        /\ tx_matches' = EmptyBag
        /\ pc' # "idle" =>
              /\ CandidateDone
              /\ loc'.counters = loc.counters
              /\ hist'.failed = hist.failed

\* C21: a candidate whose Match row and whose EntityMatchStat row of the
\* current entity both exist is passed over: no payload is fetched for it
\* (no outcome of a fetch can end the iteration), nothing is written and
\* none of the three counters changes.
AlreadyIngestedNoOp == [][AlreadyIngestedStep]_vars

\* the iteration went past a candidate with both rows and has counted
\* nothing so far
AlreadyIngestedNoOpWitness ==
    /\ pc = "match"
    /\ loc.counters = ZeroCounters
    /\ \E m \in MatchIds :
          /\ <<loc.puuid, m>> \in hist.handled
          /\ MatchRowCount(matches, m) = 1
          /\ StatRowCount(stats, <<loc.puuid, m>>) = 1

\* the payload carries a category id that is not enabled for config entry i
NotEnabledFor(json, i) ==
    /\ json.queueId.present
    /\ json.queueId.v \notin (IF cfg.players[i].override # {}
                               THEN cfg.players[i].override ELSE cfg.enabled_queues)

\* the candidate at hand has no Match row and a category that is not
\* enabled for the current entity
RejectedCandidate ==
    /\ pc = "match"
    /\ loc.mi <= Len(loc.match_ids)
    /\ MatchRowCount(matches, loc.match_ids[loc.mi]) = 0
    /\ NotEnabledFor(upstream[loc.match_ids[loc.mi]], loc.idx)

RejectedStep ==
    RejectedCandidate =>
        LET m == loc.match_ids[loc.mi] IN
        /\ matches' = matches
        /\ stats' = stats
        /\ tx_matches' = EmptyBag
        /\ pc' # "tx"
        /\ CandidateDone =>
              loc'.counters = [loc.counters EXCEPT !.skipped_by_queue = @ + 1]
        /\ (pc' \notin {"idle", "player"}) => CandidateDone

\* C22: a fetched candidate without a Match row whose category id is not
\* enabled for the entity gets neither a Match row nor an EntityMatchStat
\* row, and skipped_by_queue grows by exactly one.
RejectedNotPersisted == [][RejectedStep]_vars

\* the iteration has skipped one candidate, which has no row of either kind
RejectedNotPersistedWitness ==
    /\ pc = "match"
    /\ loc.counters.skipped_by_queue = 1
    /\ \E m \in MatchIds :
          /\ <<loc.puuid, m>> \in hist.handled
          /\ NotEnabledFor(upstream[m], loc.idx)
          /\ MatchRowCount(matches, m) = 0
          /\ \A u \in Puuids : StatRowCount(stats, <<u, m>>) = 0

\* C23: the listing of an entity is requested from the cursor the entity
\* had, or from now minus the lookback when it had none, up to the now of
\* the run, with a count of min(max_matches_per_player, 100), which is never
\* above 100.
FetchWindowAndCap ==
    pc \in {"match", "tx", "cp2"} =>
        LET cur == hist.cursor0[loc.puuid] IN
        /\ loc.start_time = IF cur.present THEN cur.v
                            ELSE loc.now - cfg.lookback_days * DaySecs
        /\ loc.end_time = loc.now
        /\ hist.this_now = Some(loc.now)
        /\ loc.count = IF cfg.max_matches_per_player < 100
                       THEN cfg.max_matches_per_player ELSE 100
        /\ loc.count <= 100
        /\ Len(loc.match_ids) <= loc.count

\* a listing from a stored cursor, a day old, under a configured maximum
\* above 100
FetchWindowAndCapWitness ==
    /\ pc = "match"
    /\ cfg.max_matches_per_player > 100
    /\ loc.count = 100
    /\ hist.cursor0[loc.puuid].present
    /\ loc.start_time = hist.cursor0[loc.puuid].v
    /\ loc.start_time < loc.end_time

\* C24: the category set an entity's matches are filtered with is the
\* entity's own override set when that is non-empty, and the global enabled
\* set otherwise; an override replaces the global set, and no category that
\* only the global set holds is in the set of an entity with an override.
EffectiveEnabledSet ==
    pc \in {"match", "tx"} =>
        LET p == cfg.players[loc.idx] IN
        /\ p.override # {} => /\ loc.enabled = p.override
                              /\ \A q \in cfg.enabled_queues \ p.override : q \notin loc.enabled
        /\ p.override = {} => loc.enabled = cfg.enabled_queues

\* an entity whose override leaves out a globally enabled category filters
\* its candidates with the override alone
EffectiveEnabledSetWitness ==
    /\ pc = "match"
    /\ loc.mi <= Len(loc.match_ids)
    /\ cfg.players[loc.idx].override # {}
    /\ cfg.enabled_queues \ cfg.players[loc.idx].override # {}
    /\ loc.enabled = cfg.players[loc.idx].override

\* a request that failed with 500, 502, 503 or 504, or with a network-level
\* exception
IsTransientFailure(r) ==
    \/ r.kind = "neterr"
    \/ r.kind = "http" /\ r.status \in {500, 502, 503, 504}

BackoffSchedule == <<2, 4, 8, 16, 30, 30>>

\* C25: the sleep after the k-th attempt, k = 1..6, when that attempt failed
\* with 500, 502, 503 or 504 or with a network-level exception, is
\* min(2^k, 30) seconds: 2, 4, 8, 16, 30, 30, none above 30.
BackoffScheduleHolds ==
    \A k \in 1..Len(rg_resps) :
        IsTransientFailure(rg_resps[k]) =>
            /\ k <= max_retries
            /\ Len(rg_sleeps) >= k
            /\ rg_sleeps[k] = (IF 2 ^ k < 30 THEN 2 ^ k ELSE 30)
            /\ rg_sleeps[k] = BackoffSchedule[k]
            /\ rg_sleeps[k] <= 30

\* a call whose six attempts failed with each of the transient failures
BackoffScheduleHoldsWitness ==
    /\ rg_pc = "done"
    /\ Len(rg_resps) = max_retries
    /\ \A k \in 1..max_retries : IsTransientFailure(rg_resps[k])
    /\ rg_resps[1].status = 500 /\ rg_resps[2].status = 502
    /\ rg_resps[3].status = 503 /\ rg_resps[4].status = 504
    /\ rg_resps[5].kind = "neterr"
    /\ rg_sleeps = BackoffSchedule
    /\ rg_result.kind = "raise"

\* the call used up its attempts: the last of them failed too
Exhausted ==
    /\ rg_pc = "done"
    /\ Len(rg_resps) = max_retries
    /\ ~(rg_resps[max_retries].kind = "http" /\ rg_resps[max_retries].status = 200)

\* C26: a call that used up its attempts raises, and what it raises is the
\* failure of the final attempt: the HTTP status error of the final response,
\* or the final network exception.
LastFailureSurfaced ==
    Exhausted =>
        LET final == rg_resps[max_retries] IN
        /\ rg_result.kind = "raise"
        /\ final.kind = "neterr" =>
              rg_result = [kind |-> "raise", exc |-> "ConnectionError", status |-> 0]
        /\ final.kind = "http" =>
              rg_result = [kind |-> "raise", exc |-> "HTTPError", status |-> final.status]

\* a call whose first attempt met a network failure and whose last a 504
LastFailureSurfacedWitness ==
    /\ Exhausted
    /\ rg_resps[1].kind = "neterr"
    /\ rg_resps[max_retries - 1].status = 429
    /\ rg_resps[max_retries].status = 504
    /\ rg_result = [kind |-> "raise", exc |-> "HTTPError", status |-> 504]

\* the payload has no participant record of u, or no start timestamp
Unresolvable(json, u) == json.part[u] = "nopart" \/ ~json.has_start

\* the candidate at hand is of a category the entity accepts, and its
\* payload does not resolve to a stat row of the entity
BenignCandidate ==
    /\ pc \in {"match", "tx"}
    /\ loc.mi <= Len(loc.match_ids)
    /\ Unresolvable(upstream[loc.match_ids[loc.mi]], loc.puuid)
    /\ ~NotEnabledFor(upstream[loc.match_ids[loc.mi]], loc.idx)
    /\ StatRowCount(stats, <<loc.puuid, loc.match_ids[loc.mi]>>) = 0

NotAParticipantStep ==
    BenignCandidate =>
        LET m == loc.match_ids[loc.mi]
            json == upstream[m]
        IN /\ insert_player_match_stats(stats, loc.puuid, m, json)
                 = [raises |-> FALSE, inserted |-> FALSE, rows |-> EmptyBag]
           /\ stats' = stats
           /\ pc' # "idle" => loc'.counters.new_player_rows = loc.counters.new_player_rows
           /\ pc = "tx" =>
                 /\ pc' \in {"match", "idle"}
                 /\ pc' = "match" => /\ CandidateDone
                                     /\ hist'.failed = hist.failed
                                     /\ <<loc.puuid, m>> \in hist'.handled
           /\ pc = "match" =>
                 /\ pc' \in {"tx", "match", "player", "idle"}
                 /\ pc' = "match" => /\ CandidateDone
                                     /\ hist'.failed = hist.failed
                                     /\ <<loc.puuid, m>> \in hist'.handled
                                     /\ loc'.counters = loc.counters
                 /\ pc' = "tx" => loc' = [loc EXCEPT !.match_json = json]

\* C27: a fetched payload of an accepted category that holds no participant
\* record of the entity, or no start timestamp, makes
\* insert_player_match_stats write no stat row and return False without
\* raising; new_player_rows stays as it is and the entity goes on to its
\* next candidate.
NotAParticipantBenign == [][NotAParticipantStep]_vars

\* an entity went past a new match that does not list it among the
\* participants and is at a later candidate
NotAParticipantBenignWitness ==
    /\ pc = "match"
    /\ loc.idx \notin hist.failed
    /\ loc.counters.new_player_rows = 0
    /\ loc.counters.new_matches >= 1
    /\ loc.mi <= Len(loc.match_ids)
    /\ \E m \in MatchIds :
          /\ <<loc.puuid, m>> \in hist.handled
          /\ upstream[m].part[loc.puuid] = "nopart"
          /\ hist.creator[m] = loc.puuid
          /\ MatchRowCount(matches, m) = 1
          /\ StatRowCount(stats, <<loc.puuid, m>>) = 0

\* a counter of a participant record, 0 when the record does not hold it
OrZero(x) == IF x.present THEN x.v ELSE 0

\* the stat rows that the step inserts
InsertedStatRows == { r \in Rows(stats') : StatRowCount(stats, pms_pk(r)) = 0 }

\* the payload the inserting step works on: the one the transaction fetched
\* when it began, the one the upstream serves otherwise
PayloadAtHand(m) == IF pc = "tx" THEN loc.match_json ELSE upstream[m]

StatExtractionStep ==
    \A r \in InsertedStatRows :
        LET part == find_participant(PayloadAtHand(r.match_id), r.puuid) IN
        /\ r.cs = OrZero(part.totalMinionsKilled) + OrZero(part.neutralMinionsKilled)
        /\ r.kills = OrZero(part.kills)
        /\ r.deaths = OrZero(part.deaths)
        /\ r.assists = OrZero(part.assists)
        /\ ~part.totalTimeSpentDead.present => r.time_dead_s = None
        /\ part.totalTimeSpentDead.present =>
              r.time_dead_s = Some(part.totalTimeSpentDead.v)

\* C28: the stored resource-collection count of a participant record is
\* totalMinionsKilled + neutralMinionsKilled, an absent counter counting 0;
\* the stored kills, deaths and assists are 0 when absent; the stored
\* incapacitation duration is null when totalTimeSpentDead is absent and
\* its value otherwise.
StatExtractionDefaults == [][StatExtractionStep]_vars

\* the rows of a record that holds no counter and of a record that holds
\* some: one minion counter, no deaths, a time spent dead
StatExtractionDefaultsWitness ==
    /\ bf = BfIdle
    /\ \E r \in Rows(stats) :
          /\ <<r.kills, r.deaths, r.assists, r.cs>> = <<0, 0, 0, 0>>
          /\ r.time_dead_s = None
    /\ \E r \in Rows(stats) :
          /\ <<r.kills, r.deaths, r.assists, r.cs>> = <<2, 0, 1, 6>>
          /\ r.time_dead_s = Some(7)

MatchRowsImmutableStep ==
    /\ \A r \in Rows(matches) :
          /\ r \in Rows(matches')
          /\ matches'[r] = matches[r]
          /\ MatchRowCount(matches', r.match_id) = MatchRowCount(matches, r.match_id)
    /\ \A t \in Rows(tx_matches') : MatchRowCount(matches', t.match_id) = 0

\* C29: once a Match row exists for a match_id no later ingestion of the
\* match, by an entity of another routing region or under a changed
\* upstream payload, changes an attribute of the row: the first writer wins.
MatchRowsImmutable == [][MatchRowsImmutableStep]_vars

\* the row that the first entity wrote is as it was after the second
\* entity, of another region, ingested the match under a revised payload
MatchRowsImmutableWitness ==
    /\ hist.creator[1] = "u1"
    /\ \E r \in Rows(matches) :
          /\ r.match_id = 1
          /\ r.routing = "europe"
          /\ r.queue_id = Some(420)
          /\ Regions[cfg.players[2].platform] # r.routing
          /\ upstream[1].queueId # r.queue_id
    /\ <<"u2", 1>> \in hist.handled
    /\ \E s \in Rows(stats) :
          /\ pms_pk(s) = <<"u2", 1>>
          /\ s.queue_id = None
          /\ s.kills = 2

\* a step of the backfill pass
BackfillStep == bf' # bf

\* the step set the null time_dead_s of row r and nothing else of it
BackfilledOnly(r) ==
    /\ BackfillStep
    /\ ~r.time_dead_s.present
    /\ r \notin Rows(stats')
    /\ \E r2 \in Rows(stats') :
          /\ r2.time_dead_s.present
          /\ r2 = [r EXCEPT !.time_dead_s = r2.time_dead_s]
          /\ stats'[r2] = stats[r]

StatRowsFrameStep ==
    /\ \A r \in Rows(stats) :
          \/ r \in Rows(stats') /\ stats'[r] = stats[r]
          \/ BackfilledOnly(r)
    /\ \A r \in Rows(stats) : StatRowCount(stats', pms_pk(r)) = StatRowCount(stats, pms_pk(r))
    /\ BackfillStep =>
          \A r2 \in Rows(stats') : StatRowCount(stats, pms_pk(r2)) = StatRowCount(stats', pms_pk(r2))

\* C30: ingestion changes no stat row that exists; the backfill pass changes
\* only time_dead_s, only on rows where it is null, sets it to a value that
\* is not null, and leaves every other column and every other row as they
\* were.
StatRowsFrame == [][StatRowsFrameStep]_vars

\* a pass has set the time_dead_s of the one row that lacked it, from a
\* payload revised since the row was inserted, next to a row it left alone
StatRowsFrameWitness ==
    /\ bf.pc = "done"
    /\ bf.updated = 1
    /\ \E r \in Rows(stats) :
          /\ pms_pk(r) = <<"u1", 1>>
          /\ <<r.kills, r.cs>> = <<0, 0>>
          /\ r.time_dead_s = Some(5)
    /\ \E r \in Rows(stats) :
          /\ pms_pk(r) = <<"u2", 1>>
          /\ <<r.kills, r.cs>> = <<3, 5>>
          /\ r.time_dead_s = Some(5)

\* C31: in every committed state of the store, every EntityMatchStat row
\* refers to a match_id that a Match row exists for.
StatRefersToMatch ==
    \A r \in Rows(stats) : MatchRowCount(matches, r.match_id) >= 1

\* the stat rows of two entities refer to the one Match row of their match,
\* the first written with it and the second after it
StatRefersToMatchWitness ==
    \E m \in MatchIds :
        /\ MatchRowCount(matches, m) = 1
        /\ StatRowCount(stats, <<"u1", m>>) = 1
        /\ StatRowCount(stats, <<"u2", m>>) = 1
        /\ hist.creator[m] # ""

\* C32: an entity is classified support exactly when it has an in-window
\* stat row and its in-window rows of the support position are at least 60%
\* of its in-window rows: exactly 60% is support, no row is not.
SupportClassification ==
    fn_call.fn = "is_support_this_week" =>
        LET t == fn_call.args
            total == t.sup_in + t.other_in
        IN fn_call.result = (total >= 1 /\ 5 * t.sup_in >= 3 * total)

\* three support games of five in the window, an older support game beside
SupportClassificationWitness ==
    /\ fn_call.fn = "is_support_this_week"
    /\ fn_call.args = [sup_in |-> 3, other_in |-> 2, sup_old |-> 1]
    /\ fn_call.result = TRUE

\* the best-KDA award goes to a player with at least 2 games whose KDA is
\* maximal among those players and whose game count is maximal among the
\* players of that KDA
BestKdaTieBreak ==
    fn_call.fn = "best_kda" =>
        LET c == candidates_for_awards(fn_call.args)
            kdaOf(i) == kda_ratio(Some(fn_call.args[i].k), Some(fn_call.args[i].d),
                                  Some(fn_call.args[i].a))
            el == { i \in 1..Len(AwardRiotIds) : fn_call.args[i].games >= 2 }
        IN IF el = {} THEN fn_call.result = None
           ELSE \E i \in el :
                   /\ fn_call.result = Some(AwardRiotIds[i])
                   /\ \A j \in el : ~RatLess(kdaOf(i), kdaOf(j))
                   /\ \A j \in el : kdaOf(j) = kdaOf(i) =>
                                        fn_call.args[j].games <= fn_call.args[i].games

\* the worst statline is an eligible row with deaths > 0 whose
\* (kills + assists) / deaths is minimal among the eligible rows and whose
\* deaths are maximal among the rows of that ratio
WorstStatLineTieBreak ==
    fn_call.fn = "compute_worst_stat_line" =>
        LET el == { r \in StatlineJoin(fn_call.args) : r.duration_s >= 600 /\ r.deaths > 0 }
            ratio(r) == [n |-> r.kills + r.assists, d |-> r.deaths]
            less(x, y) == x.n * y.d < y.n * x.d
        IN IF el = {} THEN fn_call.result = None
           ELSE /\ fn_call.result.present
                /\ fn_call.result.v \in el
                /\ \A o \in el : ~less(ratio(o), ratio(fn_call.result.v))
                /\ \A o \in el :
                       ~less(ratio(fn_call.result.v), ratio(o)) =>
                           o.deaths <= fn_call.result.v.deaths

\* the player an award call selected, "" when it selected none
WinnerOf(fn, w) ==
    IF ~w.present THEN "" ELSE IF fn = "best_kda" THEN w.v ELSE w.v.riot_id

\* a second evaluation over the same rows selects the same winner
SameWinnerAgain ==
    (fn_call.fn \in {"best_kda", "compute_worst_stat_line"} /\ fn_call.again) =>
        WinnerOf(fn_call.fn, fn_call.result) = WinnerOf(fn_call.fn, fn_call.prev)

\* the best-KDA award alone is the same on every evaluation
BestKdaSameAgain ==
    (fn_call.fn = "best_kda" /\ fn_call.again) => fn_call.result = fn_call.prev

\* C33: the best-KDA award goes to a player of maximal KDA and, among those,
\* maximal game count (players with at least 2 games); the worst statline is
\* a row with deaths > 0 of minimal (kills+assists)/deaths and, among those,
\* maximal deaths; for fixed rows every evaluation selects the same winners.
AwardSelectionTieBreaks ==
    /\ BestKdaTieBreak
    /\ WorstStatLineTieBreak
    /\ SameWinnerAgain

\* the ids of riot.enabled_queues
GlobalEnabledIds(eq) == { eq[k].id : k \in DOMAIN eq }

\* the label of an entry is a casual one: lower-cased and stripped it starts
\* with "aram"
CasualLabel(e) ==
    e.label.present /\
    \E n \in 0..Len(e.label.v) :
        /\ \A i \in 1..n : e.label.v[i] = " "
        /\ Len(e.label.v) >= n + 4
        /\ e.label.v[n + 1] \in {"a", "A"}
        /\ e.label.v[n + 2] \in {"r", "R"}
        /\ e.label.v[n + 3] \in {"a", "A"}
        /\ e.label.v[n + 4] \in {"m", "M"}

\* no id is listed under a casual label and under another label
LabelsAgreePerId(eq) ==
    \A j, k \in DOMAIN eq : eq[j].id = eq[k].id => (CasualLabel(eq[j]) <=> CasualLabel(eq[k]))

\* C34 as stated: for every configuration the ranked/normal id set and the
\* casual id set are disjoint and their union is the global enabled id set.
CategoryPartitionAlways ==
    fn_call.fn = "queue_sets" =>
        /\ fn_call.result.stat_queue_ids \cap fn_call.result.fun_queue_ids = {}
        /\ fn_call.result.stat_queue_ids \cup fn_call.result.fun_queue_ids
               = GlobalEnabledIds(fn_call.args)

\* C34: for every configuration the union of the ranked/normal id set and
\* the casual id set is the global enabled id set, an id is in the casual
\* set exactly when an entry lists it under a casual label and in the other
\* set exactly when an entry lists it under another label; the two sets are
\* disjoint in every configuration that lists no id under both kinds of label.
CategoryPartition ==
    fn_call.fn = "queue_sets" =>
        LET eq == fn_call.args
            r == fn_call.result
        IN /\ r.stat_queue_ids \cup r.fun_queue_ids = GlobalEnabledIds(eq)
           /\ r.fun_queue_ids = { eq[k].id : k \in { x \in DOMAIN eq : CasualLabel(eq[x]) } }
           /\ r.stat_queue_ids = { eq[k].id : k \in { x \in DOMAIN eq : ~CasualLabel(eq[x]) } }
           /\ LabelsAgreePerId(eq) => r.stat_queue_ids \cap r.fun_queue_ids = {}

\* two entries, 420 under "Rank" and 450 under "ARAM", and a third for 450
\* under a padded mixed-case casual label
CategoryPartitionWitness ==
    /\ fn_call.fn = "queue_sets"
    /\ Cardinality(DOMAIN fn_call.args) = 3
    /\ LabelsAgreePerId(fn_call.args)
    /\ \E k \in DOMAIN fn_call.args :
          fn_call.args[k] = [id |-> 450, label |-> [present |-> TRUE, v |-> <<"A", "R", "A", "M">>]]
    /\ \E k \in DOMAIN fn_call.args :
          fn_call.args[k].label.v = <<" ", "a", "R", "a", "m", "x">>
    /\ fn_call.result = [stat_queue_ids |-> {420}, fun_queue_ids |-> {450}]

\* the upstream matches of puuid u that started in [s, e], list u as a
\* participant and carry a category of the set en
WindowMatches(u, s, e, en) ==
    { m \in MatchIds :
        /\ upstream[m].exists
        /\ upstream[m].part[u] = "ok"
        /\ upstream[m].has_start
        /\ StartSec(upstream[m]) >= s
        /\ StartSec(upstream[m]) <= e
        /\ upstream[m].queueId.present
        /\ upstream[m].queueId.v \in en }

\* the iteration at hand has written the cursor and left no match of its
\* window without a stat row
NoGapHere ==
    \A m \in WindowMatches(loc.puuid, loc.start_time, loc.end_time, loc.enabled) :
        StatRowCount(stats, <<loc.puuid, m>>) >= 1

\* the window of the iteration at hand holds no more matches than were asked for
WithinCount ==
    Cardinality({ m \in MatchIds :
                    /\ upstream[m].exists
                    /\ upstream[m].part[loc.puuid] # "unlisted"
                    /\ StartSec(upstream[m]) >= loc.start_time
                    /\ StartSec(upstream[m]) <= loc.end_time }) <= loc.count

\* when the window holds no more matches than the requested count, an
\* iteration that wrote the cursor left no gap
NoSilentGapWithinCount == (pc = "cp2" /\ WithinCount) => NoGapHere

\* C35: whenever a run advances an entity's cursor from start to end, every
\* upstream match of the entity that started in [start, end] and has an
\* enabled category has a stat row of the entity, also when the upstream
\* holds more matches in the window than the requested count.
NoSilentGap == pc = "cp2" => NoGapHere

\* the payload lists the puuid with a participant record and a start time
Participated(json, u) == json.part[u] = "ok" /\ json.has_start

NoCategoryStep ==
    LET m == loc.match_ids[loc.mi]
        key == <<loc.puuid, m>>
    IN /\ (pc = "match" /\ loc.mi <= Len(loc.match_ids) /\ ~upstream[m].queueId.present) =>
             /\ pc' \in {"match", "tx"} =>
                   loc'.counters.skipped_by_queue = loc.counters.skipped_by_queue
             /\ MatchRowCount(matches, m) = 0 => ~CandidateDone
             /\ (MatchRowCount(matches, m) = 0 /\ pc' = "tx") =>
                   \E r \in Rows(tx_matches') : r.match_id = m /\ r.queue_id = None
             /\ (MatchRowCount(matches, m) >= 1 /\ CandidateDone
                   /\ Participated(upstream[m], loc.puuid)) =>
                   StatRowCount(stats', key) = 1
       /\ (pc = "tx" /\ ~loc.match_json.queueId.present /\ pc' = "match") =>
             /\ loc'.counters.skipped_by_queue = loc.counters.skipped_by_queue
             /\ \E r \in Rows(matches') : r.match_id = m /\ r.queue_id = None
             /\ Participated(loc.match_json, loc.puuid) => StatRowCount(stats', key) = 1

\* C36: a fetched payload that carries no category id is never counted as
\* skipped by category, whatever the enabled set: a candidate without a
\* Match row goes on to the transaction that writes the Match row with a
\* null category and, when the entity participated, the stat row; a
\* candidate with a Match row gets its stat row when the entity participated.
NoCategoryAccepted == [][NoCategoryStep]_vars

\* a match without a category id has its Match row with a null category and
\* a stat row of the entity, and the iteration has skipped nothing
NoCategoryAcceptedWitness ==
    /\ pc = "match"
    /\ loc.counters.skipped_by_queue = 0
    /\ \E m \in MatchIds :
          /\ ~upstream[m].queueId.present
          /\ <<loc.puuid, m>> \in hist.handled
          /\ \E r \in Rows(matches) : r.match_id = m /\ r.queue_id = None
          /\ StatRowCount(stats, <<loc.puuid, m>>) = 1

\* C37: a reporting run over a store with at least one entity computes the
\* award texts and the new-record list without raising and goes on to
\* publish, whatever the data of the window: it fails only when the webhook
\* is not configured or when the store or the webhook fails.
ReportReachesPublish ==
    (rp.pc = "failed" /\ PresentPlayers(players) # {}) => rp.fault

\* a run over a store with a candidate for the resource-rate awards fails
\* only on a fault
ReportReachesPublishWithCandidate ==
    (rp.pc = "failed" /\ PresentPlayers(players) # {} /\ rp.has_cs) => rp.fault

\* the requests the iteration at hand has issued
RequestsOfEntity == requests.n + Len(rg_resps)

\* the requests of an iteration stay within max_retries for each of its
\* riot_get calls, of which there are two and one for each listed candidate
BoundedRequests ==
    /\ Len(rg_resps) <= max_retries
    /\ (pc = "player" /\ requests.at = Pos) => RequestsOfEntity <= max_retries * 2
    /\ pc \in {"list", "match", "tx", "cp2"} =>
          /\ requests.calls <= 2 + Len(loc.match_ids)
          /\ RequestsOfEntity <= max_retries * requests.calls
          /\ RequestsOfEntity <= max_retries * (2 + Len(loc.match_ids))

\* the run has returned its counters
RunReturned == pc = "returned" /\ ret.present

\* C38: when every request is answered by a response or a network error,
\* an ingestion run issues for each entity at most max_retries times (2 plus
\* the number of listed candidates) requests, and it ends and returns its
\* counters.
IngestTerminates == []BoundedRequests /\ <>RunReturned

\* an iteration with two candidates has issued all of its 24 requests
IngestTerminatesWitness ==
    /\ pc = "cp2"
    /\ Len(loc.match_ids) = 2
    /\ requests.calls = 4
    /\ RequestsOfEntity = max_retries * 4

\* the requests the riot_get call of the backfill pass has issued when its
\* next answer arrives
BackfillRequests == bf.depth + 1

====
